---- MODULE Spec2Model ----
(***************************************************************************)
(* vue-router 3.6.5: the navigation transition engine (History in          *)
(* history/base.js), the guard runner (util/async.js), async component     *)
(* resolution (util/resolve-components.js) and the in-memory adapter       *)
(* (history/abstract.js).                                                  *)
(*                                                                         *)
(* JavaScript runs one task at a time.  A task is modelled by the          *)
(* variable callStack: the activations that are still open.  While it is   *)
(* not empty only the engine's own steps are enabled (the task runs to     *)
(* completion); tasks a user, a timer or a promise starts (push, go, a     *)
(* deferred guard calling next, a lazy component arriving) are enabled     *)
(* only when it is empty.  Every step runs all deterministic code up to    *)
(* the next point where application code decides something: a guard's      *)
(* answer, a factory's answer, a callback that returns or throws.          *)
(***************************************************************************)
EXTENDS Integers, Sequences, FiniteSets, TLC

\* ------------------------------------------------------------------ bounds
\* navigations started in one run (push, replace, go and guard redirects)
MaxNavs == 3
\* answers kept for later in one run: a guard that returns before it calls
\* next, a factory that returns before it resolves or rejects
MaxDeferred == 2
\* failures the application causes in one run: a guard answering false, an
\* error or a redirect, a guard or a callback throwing, a factory rejecting
MaxFaults == 1
\* the same three for the runs that register ready callbacks (SpecReady)
ReadyNavs == 2
ReadyDeferred == 1
ReadyFaults == 2
\* onReady registrations in one run
MaxCbs == 2
\* the same three for the runs that walk the history stack (SpecGo), in
\* which nothing fails
GoNavs == 5
GoDeferred == 2
\* the same three for the runs that use the promise form of push and replace,
\* register error callbacks and navigate to a location whose match throws
\* (SpecApi)
ApiNavs == 2
ApiDeferred == 1
ApiFaults == 1
\* calls in one run whose match throws
MaxThrows == 1
\* the roots that can be registered with the router at one time, and the same
\* three as above for the runs that create and destroy roots (SpecApp)
MaxApps == 2
AppNavs == 3
AppDeferred == 1
AppFaults == 1
\* the same three for the runs in which beforeRouteEnter guards hand
\* callbacks to next (SpecEnter)
EnterNavs == 3
EnterDeferred == 1
EnterFaults == 1

\* ------------------------------------------------- the application's routes
\* A location is a path (its segments, and whether it ends in '/') and a hash.
Loc(segs, slash, hash) == [segs |-> segs, slash |-> slash, hash |-> hash]

\* routes: [{path:'/p', children:[{path:'x'}, {path:'y'}]},
\*          {path:'/t', redirect: () => { throw ... }},
\*          {path:'/a', children:[{path:'b', children:[{path:'c'}, {path:'d'}]}]}]
Records == {"P", "X", "Y", "T", "A", "B", "C", "D"}

NoRecord == "none"

RecordParent(r) ==
  IF r \in {"X", "Y"} THEN "P"
  ELSE IF r = "B" THEN "A"
  ELSE IF r \in {"C", "D"} THEN "B"
  ELSE NoRecord

RecordSegs(r) ==
  CASE r = "P" -> <<"p">>
    [] r = "X" -> <<"p", "x">>
    [] r = "Y" -> <<"p", "y">>
    [] r = "T" -> <<"t">>
    [] r = "A" -> <<"a">>
    [] r = "B" -> <<"a", "b">>
    [] r = "C" -> <<"a", "b", "c">>
    [] r = "D" -> <<"a", "b", "d">>

\* records whose redirect option is a function that throws
RedirectThrows(r) == r = "T"

\* records that declare a beforeEnter guard in their route config
HasBeforeEnter(r) == r \in {"Y", "A", "B", "C"}

\* in-component guards of each record's component
HasComponentGuard(r, name) ==
  \/ name = "beforeRouteLeave" /\ r = "X"
  \/ name = "beforeRouteUpdate" /\ r = "P"
  \/ name = "beforeRouteEnter" /\ r = "Y"
  \/ r \in {"A", "B", "C"}

\* records whose component is given as a lazy factory function
LazyRecords == {"P", "Y"}

\* the locations the application navigates to
Locations ==
  { Loc(<<"p", "x">>, FALSE, ""), Loc(<<"p", "x">>, TRUE, ""),
    Loc(<<"p", "y">>, FALSE, "") }

\* the locations it calls router.replace with
ReplaceLocations == { Loc(<<"p", "y">>, FALSE, "") }

\* the locations it visits in the runs that walk the history stack
GoLocations == { Loc(<<"p", "x">>, FALSE, ""), Loc(<<"p", "y">>, FALSE, "") }

\* a location whose record has the throwing redirect
ThrowingLocations == { Loc(<<"t">>, FALSE, "") }

\* what a guard hands to next() to redirect: a location, with or without replace
RedirectTargets ==
  { [loc |-> Loc(<<"p", "x">>, FALSE, ""), replace |-> FALSE],
    [loc |-> Loc(<<"p", "y">>, FALSE, ""), replace |-> TRUE] }

\* ------------------------------------------------------------------ routes
\* path-to-regexp, non strict: a pattern matches its path with or without a
\* trailing slash; pathList order is declaration order
matchRoute(r, loc) == RecordSegs(r) = loc.segs

pathList == <<"P", "X", "Y", "T", "A", "B", "C", "D">>

RECURSIVE firstMatch(_, _)
firstMatch(i, loc) ==
  IF i > Len(pathList) THEN NoRecord
  ELSE IF matchRoute(pathList[i], loc) THEN pathList[i]
  ELSE firstMatch(i + 1, loc)

RECURSIVE formatMatch(_)
formatMatch(record) ==
  IF record = NoRecord THEN <<>>
  ELSE Append(formatMatch(RecordParent(record)), record)

\* A Route object.  id stands for its identity: createRoute builds a new
\* object at each call, so two routes are the same object iff ids are equal.
createRoute(id, record, loc) ==
  [id |-> id, path |-> [segs |-> loc.segs, slash |-> loc.slash],
   hash |-> loc.hash, matched |-> formatMatch(record)]

START == [id |-> 0, path |-> [segs |-> <<>>, slash |-> TRUE], hash |-> "",
          matched |-> <<>>]

\* null, as the value of history.pending
NoRoute == [id |-> -1, path |-> [segs |-> <<>>, slash |-> FALSE], hash |-> "",
            matched |-> <<>>]

\* path.replace(/\/?$/, '')
stripTrailingSlash(path) == [path EXCEPT !.slash = FALSE]

\* isSameRoute comparing the paths as written
isSameRouteStrict(a, b) ==
  IF b = START THEN a = b
  ELSE IF b = NoRoute THEN FALSE
  ELSE a.path = b.path /\ a.hash = b.hash

isSameRoute(a, b) ==
  IF b = START THEN a = b
  ELSE IF b = NoRoute THEN FALSE
  ELSE /\ stripTrailingSlash(a.path) = stripTrailingSlash(b.path)
       /\ a.hash = b.hash

\* router.match(location, current): first record in pathList whose pattern
\* matches; a fresh Route each time
match(id, loc) == createRoute(id, firstMatch(1, loc), loc)

\* _createRoute calls redirect(record, location) for a record with a redirect
\* option, and redirect calls the option when it is a function
matchThrows(loc) ==
  firstMatch(1, loc) # NoRecord /\ RedirectThrows(firstMatch(1, loc))


\* ------------------------------------------------------------------- state
VARIABLES
  current,        \* history.current
  pending,        \* history.pending (NoRoute for null)
  ready,          \* history.ready
  readyCbs,       \* history.readyCbs: the ids of the callbacks
  readyErrorCbs,  \* history.readyErrorCbs: the ids of the callbacks
  errorCbs,       \* history.errorCbs: how many are registered
  beforeHooks,    \* router.beforeHooks
  resolveHooks,   \* router.resolveHooks
  afterHooks,     \* router.afterHooks
  stack,          \* AbstractHistory.stack
  index,          \* AbstractHistory.index (0-based, -1 when nothing committed)
  components,     \* record.components.default: "factory" or "resolved"
  instances,      \* the records r with record.instances.default set
  navs,           \* one entry per confirmTransition call: its closure
  waiting,        \* next callbacks held by guards that have not answered yet
  loading,        \* resolve/reject pairs held by factories still loading
  callStack,      \* the open activations of the running task
  fired,          \* how often each ready / ready-error / error callback ran,
                  \* and what made the engine ready
  spent,          \* how many deferred answers and failures the run has had
  limit,          \* how many navigations, deferred answers and failures it may have
  apps,           \* router.apps: the roots registered with the router
  app,            \* router.app: the main root (0 for null)
  _route,         \* root._route of each root
  listeners,      \* history.listeners: the cleanup functions
  enteredCbs,     \* record.enteredCbs.default: the callbacks, <<>> when not set
  dying,          \* the records whose instance has _isBeingDestroyed set
  ticks,          \* the routes of the handleRouteEntered calls $nextTick holds
  entered,        \* the calls of the callbacks, kept for the properties
  address,        \* what getHash() / getLocation(base) read from window.location
  table,          \* the matcher's pathList, pathMap and nameMap
  asked,          \* the calls of the matcher's match: their arguments
  answer,         \* and the Routes they returned
  issued,         \* the unregister functions that registerHook has returned
  removed         \* those of them that have been called

vars == <<current, pending, ready, readyCbs, readyErrorCbs, errorCbs,
          beforeHooks, resolveHooks, afterHooks, stack, index, components,
          instances, navs, waiting, loading, callStack, fired, spent, limit,
          apps, app, _route, listeners, enteredCbs, dying, ticks, entered,
          address, table, asked, answer, issued, removed>>

\* the variables of the matcher
matcherVars == <<table, asked, answer>>

\* the unregister functions of the hooks
hookVars == <<issued, removed>>

\* the variables of the history and the router
engineVars == <<current, pending, ready, readyCbs, readyErrorCbs, errorCbs,
                beforeHooks, resolveHooks, afterHooks, stack, index, components,
                instances, navs, waiting, loading, callStack, fired, spent, limit,
                apps, app, _route, listeners, enteredCbs, dying, ticks, entered,
                address>>

\* the state as one value, so that the engine's functions can be written as
\* functions from state to state
State ==
  [current |-> current, pending |-> pending, ready |-> ready,
   readyCbs |-> readyCbs, readyErrorCbs |-> readyErrorCbs,
   errorCbs |-> errorCbs, beforeHooks |-> beforeHooks,
   resolveHooks |-> resolveHooks, afterHooks |-> afterHooks,
   stack |-> stack, index |-> index, components |-> components,
   instances |-> instances, navs |-> navs, waiting |-> waiting,
   loading |-> loading, callStack |-> callStack, fired |-> fired,
   spent |-> spent, limit |-> limit,
   apps |-> apps, app |-> app, _route |-> _route, listeners |-> listeners,
   enteredCbs |-> enteredCbs, dying |-> dying, ticks |-> ticks, entered |-> entered,
   address |-> address]

EngineBecomes(s) ==
  /\ current' = s.current
  /\ pending' = s.pending
  /\ ready' = s.ready
  /\ readyCbs' = s.readyCbs
  /\ readyErrorCbs' = s.readyErrorCbs
  /\ errorCbs' = s.errorCbs
  /\ beforeHooks' = s.beforeHooks
  /\ resolveHooks' = s.resolveHooks
  /\ afterHooks' = s.afterHooks
  /\ stack' = s.stack
  /\ index' = s.index
  /\ components' = s.components
  /\ instances' = s.instances
  /\ navs' = s.navs
  /\ waiting' = s.waiting
  /\ loading' = s.loading
  /\ callStack' = s.callStack
  /\ address' = s.address
  /\ fired' = s.fired
  /\ spent' = s.spent
  /\ limit' = s.limit
  /\ apps' = s.apps
  /\ app' = s.app
  /\ _route' = s._route
  /\ listeners' = s.listeners
  /\ enteredCbs' = s.enteredCbs
  /\ dying' = s.dying
  /\ ticks' = s.ticks
  /\ entered' = s.entered

Becomes(s) ==
  /\ EngineBecomes(s)
  /\ UNCHANGED matcherVars
  /\ UNCHANGED hookVars

\* ----------------------------------------------------------------- helpers
Range(seq) == {seq[i] : i \in DOMAIN seq}

\* the function f with domain 1..n, as a sequence
AsSeq(f) == SubSeq(f, 1, Len(f))

Reverse(seq) == AsSeq([i \in 1..Len(seq) |-> seq[Len(seq) + 1 - i]])

RemoveAt(seq, k) ==
  AsSeq([i \in 1..(Len(seq) - 1) |-> IF i < k THEN seq[i] ELSE seq[i + 1]])

Has(tr, ev) == \E i \in DOMAIN tr : tr[i] = ev

Count(seq, x) == Cardinality({i \in DOMAIN seq : seq[i] = x})

\* Array.prototype.slice(0, end) for end >= -1
slice0(seq, end) ==
  IF end >= 0 THEN SubSeq(seq, 1, IF end < Len(seq) THEN end ELSE Len(seq))
  ELSE SubSeq(seq, 1, Len(seq) + end)

\* an event of navigation n, kept for the properties
Note(s, n, ev) == [s EXCEPT !.navs[n].trace = Append(s.navs[n].trace, ev)]

Frame(op, n, queue, idx, stage, comp) ==
  [op |-> op, nav |-> n, queue |-> queue, idx |-> idx, stage |-> stage, comp |-> comp]

PushFrame(s, f) == [s EXCEPT !.callStack = Append(s.callStack, f)]

PopFrame(s) == [s EXCEPT !.callStack = SubSeq(s.callStack, 1, Len(s.callStack) - 1)]

Top(s) == s.callStack[Len(s.callStack)]

\* ------------------------------------------------------------------ errors
NavigationFailureType == {"redirected", "aborted", "cancelled", "duplicated"}

\* "Error": an Error a guard passes to next or a factory rejects with;
\* "Thrown": an exception a guard or a callback throws;
\* "TypeError": the exception of reading .options of an unresolved factory
isError(err) == err \in NavigationFailureType \cup {"Error", "Thrown", "TypeError"}

isNavigationFailure(err) == isError(err) /\ err \in NavigationFailureType

\* ----------------------------------------------------------- the adapter
\* the address of an AbstractHistory, which has no window
NoWindow == [segs |-> <<>>, slash |-> FALSE, hash |-> "no window"]

\* route.fullPath as a location
locationOf(route) == Loc(route.path.segs, route.path.slash, route.hash)

\* an ensureURL that leaves the address as it is
ensureURLNoop(s, n, push) == Note(s, n, IF push THEN "ensureURL(true)" ELSE "ensureURL()")

\* AbstractHistory.ensureURL is a no-op; HashHistory.ensureURL and
\* HTML5History.ensureURL push or replace current.fullPath when the address
\* differs from it.  The call is noted.
ensureURL(s, n, push) ==
  Note(IF s.address = NoWindow THEN s ELSE [s EXCEPT !.address = locationOf(s.current)],
       n, IF push THEN "ensureURL(true)" ELSE "ensureURL()")

\* history.setupListeners(): if (this.listeners.length > 0) return; the
\* handler of popstate is added and its removal pushed to listeners
setupListeners(s) ==
  IF s.listeners # <<>> THEN s ELSE [s EXCEPT !.listeners = <<"popstate">>]

\* by of a navigation the application starts with onComplete or onAbort, and
\* of one it starts with neither: router.push / replace then return a promise
\* and hand its resolve and reject to the adapter
Callbacks == 0

NoCallbacks == 0 - 1

\* by of a navigation the router starts itself, calling transitionTo with
\* a location only (addRoute, addRoutes)
NoAdapter == 0 - 2

\* resolve(route) or reject(err) of that promise: only the first call settles it
settlePromise(s, n, how, with) ==
  IF s.navs[n].promise = "pending"
  THEN [s EXCEPT !.navs[n].promise = how, !.navs[n].settledWith = with]
  ELSE s

\* onAbort making the engine ready on every failure, a redirect out of START too
onAbortAlwaysReady(s, n, err) ==
  LET nav == s.navs[n]
      s1 == settlePromise(Note(s, n, err), n, "rejected", err)
  IN IF nav.kind = "go"
     THEN IF isNavigationFailure(err) /\ err = "duplicated"
          THEN [s1 EXCEPT !.index = nav.target]
          ELSE s1
     ELSE IF isError(err) /\ ~s1.ready
          THEN [s1 EXCEPT !.ready = TRUE,
                          !.fired.readyErr =
                             AsSeq([i \in DOMAIN s1.fired.readyErr |->
                                s1.fired.readyErr[i] + Count(s1.readyErrorCbs, i)]),
                          !.fired.readyBy = err,
                          !.fired.readyFromStart = (nav.from = START)]
          ELSE s1

\* ------------------------------------------------------- abort and onAbort
\* the onAbort that transitionTo (push, replace) or go hands to confirmTransition
onAbort(s, n, err) ==
  LET nav == s.navs[n]
      s0 == IF nav.kind = "init" THEN setupListeners(s) ELSE s
      s1 == settlePromise(Note(s0, n, err), n, "rejected", err)
  IN IF nav.kind = "go"
     THEN IF isNavigationFailure(err) /\ err = "duplicated"
          THEN [s1 EXCEPT !.index = nav.target]
          ELSE s1
     ELSE IF isError(err) /\ ~s1.ready
          THEN IF ~(isNavigationFailure(err) /\ err = "redirected") \/ nav.from # START
               THEN [s1 EXCEPT !.ready = TRUE,
                               !.fired.readyErr =
                                  AsSeq([i \in DOMAIN s1.fired.readyErr |->
                                     s1.fired.readyErr[i] + Count(s1.readyErrorCbs, i)]),
                               !.fired.readyBy = err,
                               !.fired.readyFromStart = (nav.from = START)]
               ELSE s1
          ELSE s1

\* errorCbs.forEach(cb => cb(err)): one call per registered callback
tellErrorCbs(s, n) ==
  [s EXCEPT !.fired.error = s.fired.error + s.errorCbs,
            !.navs[n].trace = s.navs[n].trace \o AsSeq([i \in 1..s.errorCbs |-> "onError"])]

\* abort broadcasting every failure to the error callbacks
abortTellsAll(s, n, err) == onAbort(tellErrorCbs(s, n), n, err)

abort(s, n, err) ==
  LET s1 == IF ~isNavigationFailure(err) /\ isError(err)
            THEN tellErrorCbs(s, n)
            ELSE s
  IN onAbort(s1, n, err)

\* ------------------------------------------------------------ resolveQueue
RECURSIVE firstDifference(_, _, _)
firstDifference(cur, next, i) ==
  LET max == IF Len(cur) > Len(next) THEN Len(cur) ELSE Len(next)
  IN IF i > max THEN i
     ELSE IF i <= Len(cur) /\ i <= Len(next) /\ cur[i] = next[i]
          THEN firstDifference(cur, next, i + 1)
          ELSE i

\* a resolveQueue that splits at the length of the shorter chain
resolveQueueByLength(cur, next) ==
  LET i == (IF Len(cur) < Len(next) THEN Len(cur) ELSE Len(next)) + 1
  IN [updated |-> SubSeq(next, 1, i - 1),
      activated |-> SubSeq(next, i, Len(next)),
      deactivated |-> SubSeq(cur, i, Len(cur))]

\* resolveQueue(current, next) of history/base.js
resolveQueue(cur, next) ==
  LET i == firstDifference(cur, next, 1)
  IN [updated |-> SubSeq(next, 1, i - 1),
      activated |-> SubSeq(next, i, Len(next)),
      deactivated |-> SubSeq(cur, i, Len(cur))]

\* ------------------------------------------------------------ guard queues
Guard(type, rec) == [type |-> type, rec |-> rec, fn |-> ""]

\* a global hook as a queue entry: the function that was registered
HookGuard(type, fn) == [type |-> type, rec |-> NoRecord, fn |-> fn]

\* undefined / null queue entry
NoGuard == Guard("null", NoRecord)

\* extractGuard reads def.options: a TypeError when def is still a factory
unresolved(s, records) ==
  \E i \in DOMAIN records : s.components[records[i]] = "factory"

\* extractGuards(records, name, bind, reverse), one component per record
extractGuards(s, records, name, needsInstance, reverse) ==
  LET guards == AsSeq([i \in DOMAIN records |->
                   IF HasComponentGuard(records[i], name)
                   THEN IF needsInstance /\ records[i] \notin s.instances
                        THEN NoGuard
                        ELSE Guard(name, records[i])
                   ELSE NoGuard])
  IN IF reverse THEN Reverse(guards) ELSE guards

extractLeaveGuards(s, deactivated) ==
  extractGuards(s, deactivated, "beforeRouteLeave", TRUE, TRUE)

extractUpdateHooks(s, updated) ==
  extractGuards(s, updated, "beforeRouteUpdate", TRUE, FALSE)

extractEnterGuards(s, activated) ==
  extractGuards(s, activated, "beforeRouteEnter", FALSE, FALSE)

hookGuards(type, hooks) == AsSeq([i \in DOMAIN hooks |-> HookGuard(type, hooks[i])])

beforeEnterGuards(activated) ==
  AsSeq([i \in DOMAIN activated |->
     IF HasBeforeEnter(activated[i]) THEN Guard("beforeEnter", activated[i])
     ELSE NoGuard])

\* the first queue of confirmTransition
firstQueue(s, rq) ==
  extractLeaveGuards(s, rq.deactivated)
    \o hookGuards("beforeEach", s.beforeHooks)
    \o extractUpdateHooks(s, rq.updated)
    \o beforeEnterGuards(rq.activated)
    \o <<Guard("resolveAsyncComponents", NoRecord)>>

\* the second queue with the global resolve hooks first
secondQueueHooksFirst(s, activated) ==
  hookGuards("beforeResolve", s.resolveHooks) \o extractEnterGuards(s, activated)

\* the second queue, built when the first has run
secondQueue(s, activated) ==
  extractEnterGuards(s, activated) \o hookGuards("beforeResolve", s.resolveHooks)


\* ----------------------------------------------------- exceptions, returns
\* Bookkeeping for the properties: the guards and hooks that navigation n
\* has called, in the order of the calls.
Ran(s, n, guard) == [s EXCEPT !.navs[n].ran = Append(s.navs[n].ran, guard)]

\* Bookkeeping for the properties: the guard that resolveAsyncComponents
\* returned has called its next once more.
NextCalled(s, n) == [s EXCEPT !.navs[n].nexts = s.navs[n].nexts + 1]

\* reject of resolveAsyncComponents: the first rejection calls next(error),
\* which the iterator answers with ensureURL(true) and abort(error)
reject(s, n, reason) ==
  IF s.navs[n].error THEN s
  ELSE abort(ensureURL(NextCalled([s EXCEPT !.navs[n].error = TRUE], n), n, TRUE), n,
             IF isError(reason) THEN reason ELSE "Error")

\* An exception unwinds the open activations up to the nearest try block:
\* the iterator's (catch: abort(e)) or the one around a factory call
\* (catch: reject(e)); with none open it leaves the engine uncaught.
RECURSIVE throw(_, _)
throw(s, e) ==
  IF s.callStack = <<>> THEN [s EXCEPT !.fired.uncaught = s.fired.uncaught + 1]
  ELSE LET f == Top(s)
           s1 == PopFrame(s)
       IN IF f.op = "try" THEN abort(s1, f.nav, e)
          ELSE IF f.op = "tryFactory" THEN reject(s1, f.nav, e)
          ELSE throw(s1, e)

\* Runs the task on until application code has to answer (a guard, a factory,
\* the callbacks of a commit) or the task ends:
\*   try blocks that are left normally are closed;
\*   resolveAsyncComponents skips components that are no factories and, at
\*     the end of its loop, calls next() itself if it found no factory;
\*   runQueue's step skips empty entries; at the end of the first queue the
\*     completion callback builds the second queue.
RECURSIVE settle(_)
settle(s) ==
  IF s.callStack = <<>> THEN s
  ELSE
    LET f == Top(s)
        nav == s.navs[f.nav]
        s1 == PopFrame(s)
    IN CASE f.op \in {"try", "tryFactory"} -> settle(s1)
         [] f.op = "beforeCreate" -> settle([s1 EXCEPT !._route[f.comp] = s1.current])
         [] f.op = "loop" ->
              IF f.comp > Len(nav.activated)
              THEN IF nav.hasAsync THEN settle(s1)
                   ELSE settle(PushFrame(NextCalled(s1, f.nav),
                          Frame("step", f.nav, f.queue, f.idx + 1, f.stage, 0)))
              ELSE IF s.components[nav.activated[f.comp]] = "factory" THEN s
              ELSE settle(PushFrame(s1, [f EXCEPT !.comp = f.comp + 1]))
         [] f.op = "step" ->
              IF f.idx <= Len(f.queue)
              THEN IF f.queue[f.idx] = NoGuard
                   THEN settle(PushFrame(s1, [f EXCEPT !.idx = f.idx + 1]))
                   ELSE s
              ELSE IF f.stage = 1
                   THEN IF unresolved(s, nav.activated)
                        THEN settle(throw(s1, "TypeError"))
                        ELSE settle(PushFrame(s1,
                               Frame("step", f.nav, secondQueue(s, nav.activated), 1, 2, 0)))
                   ELSE s

\* ------------------------------------------------- what a guard hands to next
Proceed == [kind |-> "proceed", loc |-> Loc(<<>>, FALSE, ""), replace |-> FALSE]

False == [kind |-> "false", loc |-> Loc(<<>>, FALSE, ""), replace |-> FALSE]

AnError == [kind |-> "error", loc |-> Loc(<<>>, FALSE, ""), replace |-> FALSE]

Redirect(t) == [kind |-> "redirect", loc |-> t.loc, replace |-> t.replace]

\* next(vm => { ... }): a function
WithCallback == [kind |-> "callback", loc |-> Loc(<<>>, FALSE, ""), replace |-> FALSE]

\* ------------------------------------------------------------ transitions
\* Bookkeeping for the properties: when pending changes, every other
\* navigation whose route is not the pending one has been superseded.
Supersede(s, n) ==
  LET mark(nav) ==
        IF nav.kind # "gone" /\ nav.route # s.pending /\ ~Has(nav.trace, "superseded")
        THEN [nav EXCEPT !.trace = Append(nav.trace, "superseded")]
        ELSE nav
  IN [s EXCEPT !.navs = AsSeq([i \in DOMAIN s.navs |->
                                 IF i # n THEN mark(s.navs[i]) ELSE s.navs[i]])]

\* confirmTransition(route, onComplete, onAbort) for the call recorded as navs[n]
confirmTransition(s, n) ==
  LET route == s.navs[n].route
      cur == s.current
      s1 == Supersede([s EXCEPT !.pending = route], n)
      rq == resolveQueue(cur.matched, route.matched)
      lastRouteIndex == Len(route.matched)
      lastCurrentIndex == Len(cur.matched)
  IN IF /\ isSameRoute(route, cur)
        /\ lastRouteIndex = lastCurrentIndex
        /\ (lastRouteIndex = 0 \/ route.matched[lastRouteIndex] = cur.matched[lastCurrentIndex])
     THEN abort(ensureURL(s1, n, FALSE), n, "duplicated")
     ELSE IF unresolved(s1, rq.deactivated \o rq.updated)
     THEN throw(s1, "TypeError")
     ELSE PushFrame([s1 EXCEPT !.navs[n].activated = rq.activated],
                    Frame("step", n, firstQueue(s1, rq), 1, 1, 0))

\* the closure of one confirmTransition call
Nav(route, from, kind, target, by) ==
  [route |-> route, from |-> from, kind |-> kind, target |-> target, by |-> by,
   activated |-> <<>>, pendingCount |-> 0, hasAsync |-> FALSE, error |-> FALSE,
   nexts |-> 0, ran |-> <<>>,
   trace |-> <<>>, redirect |-> Proceed,
   promise |-> IF by = NoCallbacks THEN "pending" ELSE "none", settledWith |-> ""]

\* transitionTo(location, onComplete, onAbort), called by push and replace;
\* by is the navigation whose guard redirected here, 0 for a call of the user
\* the exception of match leaves transitionTo: the executor of the promise
\* router.push made turns it into a rejection, any other caller gets it
rethrow(s, by) ==
  LET s1 == [s EXCEPT !.fired.matchThrown = s.fired.matchThrown + 1]
  IN IF by = NoCallbacks
     THEN [s1 EXCEPT !.fired.rejected = s1.fired.rejected + 1]
     ELSE throw(s1, "Thrown")

\* transitionTo that lets the exception of match pass without telling anyone
transitionToSilent(s, loc, kind, by) ==
  LET n == Len(s.navs) + 1
      route == match(n, loc)
      prev == s.current
  IN IF matchThrows(loc) THEN rethrow(s, by)
     ELSE confirmTransition(
            [s EXCEPT !.navs = Append(s.navs, Nav(route, prev, kind, 0, by))], n)

transitionTo(s, loc, kind, by) ==
  LET n == Len(s.navs) + 1
      route == match(n, loc)
      prev == s.current
  IN IF matchThrows(loc)
     THEN rethrow([s EXCEPT !.fired.error = s.fired.error + s.errorCbs], by)
     ELSE confirmTransition(
            [s EXCEPT !.navs = Append(s.navs, Nav(route, prev, kind, 0, by))], n)

push(s, loc, by) == transitionTo(s, loc, "push", by)

replace(s, loc, by) == transitionTo(s, loc, "replace", by)

\* AbstractHistory.getCurrentLocation(): the full path of the route on top
\* of the stack, '/' for an empty stack; HashHistory and HTML5History read
\* the address
getCurrentLocation(s) ==
  IF s.address # NoWindow THEN s.address
  ELSE IF s.stack = <<>> THEN Loc(<<>>, TRUE, "")
  ELSE LET top == s.stack[Len(s.stack)]
       IN Loc(top.path.segs, top.path.slash, top.hash)

\* what router.addRoute and router.addRoutes do after the matcher has the
\* routes: if (this.history.current !== START)
\*   this.history.transitionTo(this.history.getCurrentLocation())
reResolve(s) ==
  IF s.current # START
  THEN transitionTo(s, getCurrentLocation(s), "transition", NoAdapter)
  ELSE s

\* AbstractHistory.go(n)
go(s, d) ==
  LET targetIndex == s.index + d
      route == s.stack[targetIndex + 1]
      n == Len(s.navs) + 1
  IN IF targetIndex < 0 \/ targetIndex >= Len(s.stack) THEN s
     ELSE confirmTransition(
            [s EXCEPT !.navs = Append(s.navs, Nav(route, s.current, "go", targetIndex, 0))], n)

\* the iterator's callback starting every redirect by push
nextCallbackPushOnly(s, n, queue, idx, stage, to) ==
  CASE to.kind = "false" ->
         abort(ensureURL(s, n, TRUE), n, "aborted")
    [] to.kind = "error" ->
         abort(ensureURL(s, n, TRUE), n, "Error")
    [] to.kind = "redirect" ->
         push(abort([s EXCEPT !.navs[n].redirect = to], n, "redirected"), to.loc, n)
    [] OTHER ->
         PushFrame(s, Frame("step", n, queue, idx + 1, stage, 0))

\* the callback the iterator hands to the hook: (to) => { ... }
nextCallback(s, n, queue, idx, stage, to) ==
  CASE to.kind = "false" ->
         abort(ensureURL(s, n, TRUE), n, "aborted")
    [] to.kind = "error" ->
         abort(ensureURL(s, n, TRUE), n, "Error")
    [] to.kind = "redirect" ->
         LET s1 == abort([s EXCEPT !.navs[n].redirect = to], n, "redirected")
         IN IF to.replace THEN replace(s1, to.loc, n) ELSE push(s1, to.loc, n)
    [] OTHER ->
         PushFrame(s, Frame("step", n, queue, idx + 1, stage, 0))

\* resolve of resolveAsyncComponents for the component of record r
resolve(s, n, r, queue, idx) ==
  LET s1 == [s EXCEPT !.components[r] = "resolved",
                      !.navs[n].pendingCount = s.navs[n].pendingCount - 1]
  IN IF s1.navs[n].pendingCount <= 0
     THEN nextCallback(NextCalled(s1, n), n, queue, idx, 1, Proceed)
     ELSE s1

\* ------------------------------------------------- beforeRouteEnter callbacks
\* routeEnterGuard, the guard bindEnterGuard returns, when the component's
\* guard calls next(to): a function is pushed to match.enteredCbs[key].  The
\* callback is named by the navigation whose guard made it.
bindEnterGuard(s, n, guard, to) ==
  IF guard.type = "beforeRouteEnter" /\ to.kind = "callback"
  THEN [s EXCEPT !.enteredCbs[guard.rec] = Append(s.enteredCbs[guard.rec], n)]
  ELSE s

RECURSIVE callEntered(_, _, _, _)
\* for (let i = 0; i < cbs.length; i++) if (!instance._isBeingDestroyed) cbs[i](instance).
\* Bookkeeping for the properties: each call is kept with whether the
\* instance was registered and not being destroyed, and whether the callback
\* was still in the record's list.
callEntered(s, rec, cbs, i) ==
  IF i > Len(cbs) THEN s
  ELSE IF rec \in s.dying THEN callEntered(s, rec, cbs, i + 1)
  ELSE callEntered(
         [s EXCEPT !.entered =
            Append(s.entered,
                   [cb |-> cbs[i], rec |-> rec,
                    live |-> rec \in s.instances /\ rec \notin s.dying,
                    queued |-> \E j \in DOMAIN s.enteredCbs[rec] :
                                 s.enteredCbs[rec][j] = cbs[i]])],
         rec, cbs, i + 1)

RECURSIVE handleRecords(_, _, _)
handleRecords(s, matched, i) ==
  IF i > Len(matched) THEN s
  ELSE LET rec == matched[i]
           cbs == s.enteredCbs[rec]
       IN IF rec \notin s.instances \/ cbs = <<>>
          THEN handleRecords(s, matched, i + 1)
          ELSE handleRecords(callEntered([s EXCEPT !.enteredCbs[rec] = <<>>], rec, cbs, 1),
                             matched, i + 1)

RECURSIVE handleRecordsKeeping(_, _, _)
handleRecordsKeeping(s, matched, i) ==
  IF i > Len(matched) THEN s
  ELSE LET rec == matched[i]
           cbs == s.enteredCbs[rec]
       IN IF rec \notin s.instances \/ cbs = <<>>
          THEN handleRecordsKeeping(s, matched, i + 1)
          ELSE handleRecordsKeeping(callEntered(s, rec, cbs, 1), matched, i + 1)

\* a handleRouteEntered that leaves the callbacks in the record's list
handleRouteEnteredKeeping(s, route) == handleRecordsKeeping(s, route.matched, 1)

\* handleRouteEntered(route) of util/route.js
handleRouteEntered(s, route) == handleRecords(s, route.matched, 1)

\* if (this.router.app) this.router.app.$nextTick(() => { handleRouteEntered(route) })
nextTick(s, route) ==
  IF s.app # 0 THEN [s EXCEPT !.ticks = Append(s.ticks, route)] ELSE s

\* ------------------------------------------------------------------ commit
\* updateRoute(route) that tells no root
updateRouteQuietly(s, n, route) == Note([s EXCEPT !.current = route], n, "updateRoute")

\* updateRoute(route): this.current = route, then this.cb(route), the function
\* router.init gave to history.listen: apps.forEach(app => { app._route = route }).
\* cb is set as soon as the first root is registered, and apps is empty before.
updateRoute(s, n, route) ==
  Note([s EXCEPT !.current = route,
                 !._route = [a \in DOMAIN s._route |->
                               IF \E i \in DOMAIN s.apps : s.apps[i] = a THEN route
                               ELSE s._route[a]]],
       n, "updateRoute")

\* afterHooks.forEach(hook => hook(route, prev)) when no hook throws
RECURSIVE runAfterHooks(_, _, _)
runAfterHooks(s, n, i) ==
  IF i > Len(s.afterHooks) THEN s
  ELSE runAfterHooks(Ran(Note(s, n, "afterEach"), n, HookGuard("afterEach", s.afterHooks[i])),
                     n, i + 1)

\* if (!this.ready) { this.ready = true; this.readyCbs.forEach(cb => cb(route)) }
fireReady(s, n) ==
  IF s.ready THEN s
  ELSE Note([s EXCEPT !.ready = TRUE,
                      !.fired.ready = AsSeq([i \in DOMAIN s.fired.ready |->
                                        s.fired.ready[i] + Count(s.readyCbs, i)]),
                      !.fired.readyBy = "commit",
                      !.fired.readyFromStart = (s.navs[n].from = START)],
            n, "readyCbs")

\* the stack update of AbstractHistory.push / replace, then the caller's
\* onComplete; a transitionTo the router calls itself has neither
adapterComplete(s, n) ==
  LET nav == s.navs[n]
      s1 == IF nav.kind = "init" THEN setupListeners(s)
            ELSE IF nav.kind \in {"push", "replace"} /\ s.address # NoWindow
            THEN [s EXCEPT !.address = locationOf(nav.route)]
            ELSE IF nav.kind = "push"
            THEN [s EXCEPT !.stack = Append(slice0(s.stack, s.index + 1), nav.route),
                           !.index = s.index + 1]
            ELSE IF nav.kind = "replace"
            THEN [s EXCEPT !.stack = Append(slice0(s.stack, s.index), nav.route)]
            ELSE s
  IN IF nav.by \in {Callbacks, NoCallbacks}
     THEN settlePromise(Note(s1, n, "onComplete"), n, "resolved", "route")
     ELSE s1

\* The onComplete that transitionTo or go hands to confirmTransition.
\* thrower: which callback throws ("none", "onComplete", "afterEach")
onComplete(s, n, thrower) ==
  LET nav == s.navs[n]
  IN IF nav.kind = "go"
     THEN LET s1 == updateRoute([s EXCEPT !.index = nav.target], n, nav.route)
          IN IF thrower = "afterEach"
             THEN throw(Ran(Note(s1, n, "afterEach"), n,
                            HookGuard("afterEach", s1.afterHooks[1])), "Thrown")
             ELSE runAfterHooks(s1, n, 1)
     ELSE LET s1 == adapterComplete(updateRoute(s, n, nav.route), n)
          IN IF thrower = "onComplete" THEN throw(s1, "Thrown")
             ELSE LET s2 == ensureURL(s1, n, FALSE)
                  IN IF thrower = "afterEach"
                     THEN throw(Ran(Note(s2, n, "afterEach"), n,
                                    HookGuard("afterEach", s2.afterHooks[1])), "Thrown")
                     ELSE fireReady(runAfterHooks(s2, n, 1), n)


\* -------------------------------------------------- closures out of reach
\* The closure of a confirmTransition call can act only while an activation,
\* a guard or a factory still holds one of its callbacks.  What is known of a
\* navigation is also kept while a record's enteredCbs holds a function that
\* one of its beforeRouteEnter guards gave to next.
Live(s, n) ==
  \/ \E i \in DOMAIN s.callStack : s.callStack[i].nav = n
  \/ \E i \in DOMAIN s.waiting : s.waiting[i].nav = n
  \/ \E i \in DOMAIN s.loading : s.loading[i].nav = n
  \/ \E r \in DOMAIN s.enteredCbs : \E i \in DOMAIN s.enteredCbs[r] : s.enteredCbs[r][i] = n

Gone == Nav(NoRoute, NoRoute, "gone", 0, 0)

\* closures nothing can reach any more are dropped when the next step starts
Forget(s) ==
  [s EXCEPT !.navs = AsSeq([i \in DOMAIN s.navs |->
                              IF Live(s, i) THEN s.navs[i] ELSE Gone])]

Defer(s) == [s EXCEPT !.spent.deferred = s.spent.deferred + 1]

Fault(s) == [s EXCEPT !.spent.faults = s.spent.faults + 1]

\* ----------------------------------------------------- the route table
\* A path pattern as path-to-regexp reads it: whether it starts with '/', and
\* its segments: a static text, a named parameter (:id), an optional named
\* parameter (:tab?) or the asterisk.
Seg(kind, text) == [kind |-> kind, text |-> text]

Pattern(abs, segs) == [abs |-> abs, segs |-> segs]

\* the path '*'
Star == Pattern(FALSE, <<Seg("star", "*")>>)

\* '' and undefined
NoPattern == Pattern(FALSE, <<>>)

\* '/'
Root == Pattern(TRUE, <<>>)

\* the redirect option of a route: none, a path or a name
NoRedirect == [kind |-> "none", path |-> NoPattern, name |-> ""]

RedirectPath(path) == [kind |-> "path", path |-> path, name |-> ""]

RedirectName(name) == [kind |-> "name", path |-> NoPattern, name |-> name]

\* a route of the configuration
RouteConfig(path, name, alias, redirect, children) ==
  [path |-> path, name |-> name, alias |-> alias, redirect |-> redirect,
   children |-> children]

\* normalizePath(path, parent, strict), not strict; no pattern of the
\* configuration ends in '/'
normalizePath(path, parent) ==
  IF path.abs THEN path
  ELSE IF parent = <<>> THEN path
  ELSE Pattern(parent[1].path.abs, parent[1].path.segs \o path.segs)

\* cleanPath(`${matchAs}/${child.path}`)
childMatchAs(matchAs, path) ==
  IF matchAs = NoPattern THEN NoPattern
  ELSE Pattern(matchAs.abs, matchAs.segs \o path.segs)

\* addRouteRecord(pathList, pathMap, nameMap, route, parent, matchAs).  The
\* record gets a fresh id, which stands for its identity; parent is <<>> or
\* <<the parent record>>.
RECURSIVE addRouteRecord(_, _, _, _)
RECURSIVE addChildren(_, _, _, _, _)
RECURSIVE addAliases(_, _, _, _, _)
\* an addRouteRecord that registers the path of every definition
addRouteRecordPushing(tbl, route, parent, matchAs) ==
  LET record == [id |-> tbl.nextId,
                 path |-> normalizePath(route.path, parent),
                 name |-> route.name,
                 parent |-> parent,
                 matchAs |-> matchAs,
                 redirect |-> route.redirect,
                 alias |-> route.alias]
      t1 == addChildren([tbl EXCEPT !.nextId = tbl.nextId + 1],
                        route.children, 1, record, matchAs)
      t2 == [t1 EXCEPT !.pathList = Append(t1.pathList, record.path),
                       !.pathMap = (record.path :> record) @@ t1.pathMap]
      t3 == addAliases(t2, route, 1, parent, record)
  IN IF route.name # "" /\ route.name \notin DOMAIN t3.nameMap
     THEN [t3 EXCEPT !.nameMap = (route.name :> record) @@ t3.nameMap]
     ELSE t3

\* an addRouteRecord in which the last registration of a name wins
addRouteRecordRenaming(tbl, route, parent, matchAs) ==
  LET record == [id |-> tbl.nextId,
                 path |-> normalizePath(route.path, parent),
                 name |-> route.name,
                 parent |-> parent,
                 matchAs |-> matchAs,
                 redirect |-> route.redirect,
                 alias |-> route.alias]
      t1 == addChildren([tbl EXCEPT !.nextId = tbl.nextId + 1],
                        route.children, 1, record, matchAs)
      t2 == IF record.path \notin DOMAIN t1.pathMap
            THEN [t1 EXCEPT !.pathList = Append(t1.pathList, record.path),
                            !.pathMap = (record.path :> record) @@ t1.pathMap]
            ELSE t1
      t3 == addAliases(t2, route, 1, parent, record)
  IN IF route.name # ""
     THEN [t3 EXCEPT !.nameMap = (route.name :> record) @@ t3.nameMap]
     ELSE t3

addRouteRecord(tbl, route, parent, matchAs) ==
  LET record == [id |-> tbl.nextId,
                 path |-> normalizePath(route.path, parent),
                 name |-> route.name,
                 parent |-> parent,
                 matchAs |-> matchAs,
                 redirect |-> route.redirect,
                 alias |-> route.alias]
      t1 == addChildren([tbl EXCEPT !.nextId = tbl.nextId + 1],
                        route.children, 1, record, matchAs)
      t2 == IF record.path \notin DOMAIN t1.pathMap
            THEN [t1 EXCEPT !.pathList = Append(t1.pathList, record.path),
                            !.pathMap = (record.path :> record) @@ t1.pathMap]
            ELSE t1
      t3 == addAliases(t2, route, 1, parent, record)
  IN IF route.name # "" /\ route.name \notin DOMAIN t3.nameMap
     THEN [t3 EXCEPT !.nameMap = (route.name :> record) @@ t3.nameMap]
     ELSE t3

\* route.children.forEach(child => addRouteRecord(..., child, record, childMatchAs))
addChildren(tbl, children, i, record, matchAs) ==
  IF i > Len(children) THEN tbl
  ELSE addChildren(
         addRouteRecord(tbl, children[i], <<record>>, childMatchAs(matchAs, children[i].path)),
         children, i + 1, record, matchAs)

\* for each alias: addRouteRecord(..., {path: alias, children}, parent, record.path || '/')
addAliases(tbl, route, i, parent, record) ==
  IF i > Len(route.alias) THEN tbl
  ELSE addAliases(
         addRouteRecord(tbl,
                        RouteConfig(route.alias[i], "", <<>>, NoRedirect, route.children),
                        parent,
                        IF record.path = NoPattern THEN Root ELSE record.path),
         route, i + 1, parent, record)

\* routes.forEach(route => addRouteRecord(pathList, pathMap, nameMap, route, parentRoute))
RECURSIVE addEach(_, _, _, _)
addEach(tbl, routes, i, parentRoute) ==
  IF i > Len(routes) THEN tbl
  ELSE addEach(addRouteRecord(tbl, routes[i], parentRoute, NoPattern),
               routes, i + 1, parentRoute)

\* the loop of createRouteMap that moves '*' to the end: i and l as in the
\* code, list[i + 1] is the code's pathList[i]
RECURSIVE moveWildcards(_, _, _)
moveWildcards(list, i, l) ==
  IF i >= l THEN list
  ELSE IF list[i + 1] = Star
       THEN moveWildcards(Append(RemoveAt(list, i + 1), Star), i, l - 1)
       ELSE moveWildcards(list, i + 1, l)

\* createRouteMap that leaves '*' where it was registered
createRouteMapUnsorted(tbl, routes, parentRoute) == addEach(tbl, routes, 1, parentRoute)

\* createRouteMap(routes, oldPathList, oldPathMap, oldNameMap, parentRoute)
createRouteMap(tbl, routes, parentRoute) ==
  LET t1 == addEach(tbl, routes, 1, parentRoute)
  IN [t1 EXCEPT !.pathList = moveWildcards(t1.pathList, 0, Len(t1.pathList))]

\* the maps before createMatcher(routes) has filled them
EmptyTable ==
  [pathList |-> <<>>, pathMap |-> [p \in {} |-> 0], nameMap |-> [p \in {} |-> 0],
   nextId |-> 1]

\* matcher.addRoutes(routes)
addRoutes(tbl, routes) == createRouteMap(tbl, routes, <<>>)

\* the routes addRoute compiles under the aliases of the parent
underAliases(alias, route) ==
  AsSeq([i \in DOMAIN alias |-> RouteConfig(alias[i], "", <<>>, NoRedirect, <<route>>)])

\* matcher.addRoute(parentOrRoute, route); parentName is "" for addRoute(route)
addRoute(tbl, parentName, route) ==
  LET parent == IF parentName # "" /\ parentName \in DOMAIN tbl.nameMap
                THEN <<tbl.nameMap[parentName]>> ELSE <<>>
      t1 == createRouteMap(tbl, <<route>>, parent)
  IN IF parent # <<>> /\ Len(parent[1].alias) > 0
     THEN createRouteMap(t1, underAliases(parent[1].alias, route), parent)
     ELSE t1

\* ------------------------------------------------------------ the matcher
\* A concrete path: whether it starts with '/', and its segments.
Path(abs, segs) == [abs |-> abs, segs |-> segs]

\* '' and undefined
NoPath == Path(FALSE, <<>>)

\* the names a parameter can have; pathMatch is the asterisk's
ParamNames == {"id", "tab", "pathMatch"}

\* the value of a parameter is a piece of a path; Absent: the key is not there
Absent == <<"">>

NoParams == [k \in ParamNames |-> Absent]

\* a location: raw as the application writes it, or normalized
Location(name, path, query, hash, params, withParams, normalized) ==
  [name |-> name, path |-> path, query |-> query, hash |-> hash, params |-> params,
   withParams |-> withParams, _normalized |-> normalized]

\* every key of the compiled pattern, the optional ones too
everyKey(pattern) ==
  {pattern.segs[i].text :
     i \in {j \in DOMAIN pattern.segs : pattern.segs[j].kind \in {"param", "optional"}}}

\* the keys of the compiled pattern that are not optional
requiredKeys(pattern) ==
  {pattern.segs[i].text : i \in {j \in DOMAIN pattern.segs : pattern.segs[j].kind = "param"}}

\* path.match(regex) for the regex path-to-regexp compiles from the pattern,
\* not strict: an optional parameter is the last segment and may be missing
regexMatches(pattern, path) ==
  IF pattern = Star THEN TRUE
  ELSE /\ pattern.abs /\ path.abs
       /\ \/ Len(path.segs) = Len(pattern.segs)
          \/ /\ Len(path.segs) = Len(pattern.segs) - 1
             /\ pattern.segs[Len(pattern.segs)].kind = "optional"
       /\ \A i \in DOMAIN path.segs :
            /\ pattern.segs[i].kind # "star"
            /\ pattern.segs[i].kind = "static" => pattern.segs[i].text = path.segs[i]

\* the params matchRoute writes: params[key.name || 'pathMatch'] = m[i]
regexParams(pattern, path) ==
  [k \in ParamNames |->
     IF pattern = Star
     THEN IF k = "pathMatch" THEN path.segs ELSE Absent
     ELSE IF \E i \in DOMAIN path.segs :
               pattern.segs[i].kind \in {"param", "optional"} /\ pattern.segs[i].text = k
          THEN <<path.segs[CHOOSE i \in DOMAIN path.segs :
                    pattern.segs[i].kind \in {"param", "optional"} /\ pattern.segs[i].text = k]>>
          ELSE Absent]

\* fillParams(path, params): the pattern with its parameters filled in; ''
\* when a parameter that is not optional is missing
RECURSIVE fillSegs(_, _, _)
fillSegs(segs, params, i) ==
  IF i > Len(segs) THEN <<>>
  ELSE LET seg == segs[i]
       IN IF seg.kind = "static" THEN <<seg.text>> \o fillSegs(segs, params, i + 1)
          ELSE IF seg.kind = "star" THEN params["pathMatch"] \o fillSegs(segs, params, i + 1)
          ELSE IF params[seg.text] = Absent THEN fillSegs(segs, params, i + 1)
          ELSE params[seg.text] \o fillSegs(segs, params, i + 1)

fillParams(pattern, params) ==
  IF \E k \in requiredKeys(pattern) : params[k] = Absent THEN NoPath
  ELSE IF pattern = Star /\ params["pathMatch"] = Absent THEN NoPath
  ELSE Path(pattern.abs \/ pattern = Star, fillSegs(pattern.segs, params, 1))

\* extend(extend({}, current.params), next.params)
extend(a, b) == [k \in ParamNames |-> IF b[k] # Absent THEN b[k] ELSE a[k]]

\* normalizeLocation(raw, current, false, router); currentRoute is <<>> or <<route>>.
\* The raw paths are absolute; a raw query and hash stand for those written
\* in the path string or beside it.
normalizeLocation(raw, currentRoute) ==
  IF raw._normalized THEN raw
  ELSE IF raw.name # "" THEN raw
  ELSE IF raw.path = NoPath /\ raw.withParams /\ currentRoute # <<>>
  THEN LET params == extend(currentRoute[1].params, raw.params)
       IN IF currentRoute[1].name # ""
          THEN [raw EXCEPT !._normalized = TRUE, !.name = currentRoute[1].name, !.params = params]
          ELSE IF currentRoute[1].matched # <<>>
          THEN [raw EXCEPT !._normalized = TRUE,
                   !.path = fillParams(currentRoute[1].matched[Len(currentRoute[1].matched)].path, params)]
          ELSE [raw EXCEPT !._normalized = TRUE]
  ELSE LET basePath == IF currentRoute # <<>> /\ currentRoute[1].path # NoPath
                       THEN currentRoute[1].path ELSE Path(TRUE, <<>>)
       IN Location("", IF raw.path # NoPath THEN raw.path ELSE basePath,
                   raw.query, raw.hash, NoParams, FALSE, TRUE)

\* formatMatch(record) of util/route.js, for records that hold their parent
RECURSIVE recordChain(_)
recordChain(record) ==
  IF record = <<>> THEN <<>> ELSE Append(recordChain(record[1].parent), record[1])

\* getFullPath(location)
getFullPath(location) ==
  [path |-> IF location.path = NoPath THEN Path(TRUE, <<>>) ELSE location.path,
   query |-> location.query, hash |-> location.hash]

\* no redirectedFrom
NoFullPath == [path |-> NoPath, query |-> "", hash |-> ""]

\* createRoute(record, location, redirectedFrom, router) of util/route.js
newRoute(record, location, redirectedFrom) ==
  [name |-> IF location.name # "" THEN location.name
            ELSE IF record # <<>> THEN record[1].name ELSE "",
   path |-> IF location.path = NoPath THEN Path(TRUE, <<>>) ELSE location.path,
   hash |-> location.hash,
   query |-> location.query,
   params |-> location.params,
   fullPath |-> getFullPath(location),
   matched |-> recordChain(record),
   redirectedFrom |-> IF redirectedFrom # <<>> THEN getFullPath(redirectedFrom[1])
                      ELSE NoFullPath]

\* START of util/route.js: createRoute(null, { path: '/' })
StartRoute ==
  newRoute(<<>>, Location("", Path(TRUE, <<>>), "", "", NoParams, FALSE, TRUE), <<>>)

\* a reference to a Route object: START is one object, and every Route that
\* createRoute returns is another
RouteRef(isStart, route) == [start |-> isStart, route |-> route]

\* path.replace(/\/?$/, '') of a Route's path: '/' becomes '', and a last
\* empty segment is the trailing slash
trimTrailingSlash(path) ==
  IF path.segs = <<>> THEN NoPath
  ELSE IF path.segs[Len(path.segs)] = "" THEN Path(path.abs, SubSeq(path.segs, 1, Len(path.segs) - 1))
  ELSE path

\* isObjectEqual(a, b) for queries and params, whose values are strings
isObjectEqual(a, b) == a = b

\* isSameRoute(a, b, onlyPath) of util/route.js, on references
sameRoute(a, b, onlyPath) ==
  IF b.start THEN a.start
  ELSE IF a.route.path # NoPath /\ b.route.path # NoPath
  THEN /\ trimTrailingSlash(a.route.path) = trimTrailingSlash(b.route.path)
       /\ \/ onlyPath
          \/ /\ a.route.hash = b.route.hash
             /\ isObjectEqual(a.route.query, b.route.query)
  ELSE IF a.route.name # "" /\ b.route.name # ""
  THEN /\ a.route.name = b.route.name
       /\ \/ onlyPath
          \/ /\ a.route.hash = b.route.hash
             /\ isObjectEqual(a.route.query, b.route.query)
             /\ isObjectEqual(a.route.params, b.route.params)
  ELSE FALSE

\* a lookup that falls back on the last entry of pathList when no regex
\* matches
firstOrLast(tbl, path, i) ==
  LET found == {j \in i..Len(tbl.pathList) :
                  regexMatches(tbl.pathMap[tbl.pathList[j]].path, path)}
  IN IF found = {} THEN Len(tbl.pathList)
     ELSE CHOOSE j \in found : \A h \in found : j <= h

\* the first entry of pathList whose regex matches, 0 if none does
RECURSIVE firstInList(_, _, _)
firstInList(tbl, path, i) ==
  IF i > Len(tbl.pathList) THEN 0
  ELSE IF regexMatches(tbl.pathMap[tbl.pathList[i]].path, path) THEN i
  ELSE firstInList(tbl, path, i + 1)

\* resolveRecordPath(path, record): the redirect paths are absolute
resolveRecordPath(path, record) == path

RECURSIVE matcherMatch(_, _, _, _), redirect(_, _, _), alias(_, _, _, _),
          _createRoute(_, _, _, _)

\* alias() forgetting the location it was asked about: the route is the
\* one the canonical path gives
aliasAsCanonical(tbl, record, location, matchAs) ==
  matcherMatch(tbl, Location("", fillParams(matchAs, location.params), "", "",
                             NoParams, FALSE, TRUE), <<>>, <<>>)

\* match(raw, currentRoute, redirectedFrom) of createMatcher; currentRoute
\* and redirectedFrom are <<>> when they are not given
matcherMatch(tbl, raw, currentRoute, redirectedFrom) ==
  LET location == normalizeLocation(raw, currentRoute)
  IN IF location.name # ""
     THEN IF location.name \notin DOMAIN tbl.nameMap
          THEN _createRoute(tbl, <<>>, location, <<>>)
          ELSE LET record == tbl.nameMap[location.name]
                   paramNames == requiredKeys(record.path)
                   params == [k \in ParamNames |->
                                IF /\ currentRoute # <<>>
                                   /\ location.params[k] = Absent
                                   /\ k \in paramNames
                                THEN currentRoute[1].params[k]
                                ELSE location.params[k]]
               IN _createRoute(tbl, <<record>>,
                               [location EXCEPT !.params = params,
                                                !.path = fillParams(record.path, params)],
                               redirectedFrom)
     ELSE IF location.path # NoPath
     THEN LET i == firstInList(tbl, location.path, 1)
          IN IF i = 0
             THEN _createRoute(tbl, <<>>, [location EXCEPT !.params = NoParams], <<>>)
             ELSE LET record == tbl.pathMap[tbl.pathList[i]]
                  IN _createRoute(tbl, <<record>>,
                                  [location EXCEPT
                                     !.params = regexParams(record.path, location.path)],
                                  redirectedFrom)
     ELSE _createRoute(tbl, <<>>, location, <<>>)

\* redirect(record, location): the redirect option is a path or a name
redirect(tbl, record, location) ==
  IF record.redirect.name # ""
  THEN matcherMatch(tbl, Location(record.redirect.name, NoPath, location.query,
                                  location.hash, location.params, TRUE, TRUE),
                    <<>>, <<location>>)
  ELSE IF record.redirect.path # NoPattern
  THEN LET rawPath == resolveRecordPath(record.redirect.path, record)
           resolvedPath == fillParams(rawPath, location.params)
       IN matcherMatch(tbl, Location("", resolvedPath, location.query, location.hash,
                                     NoParams, FALSE, TRUE),
                       <<>>, <<location>>)
  ELSE _createRoute(tbl, <<>>, location, <<>>)

\* alias(record, location, matchAs)
alias(tbl, record, location, matchAs) ==
  LET aliasedPath == fillParams(matchAs, location.params)
      aliasedMatch == matcherMatch(tbl, Location("", aliasedPath, "", "", NoParams,
                                                 FALSE, TRUE), <<>>, <<>>)
      matched == aliasedMatch.matched
      aliasedRecord == IF matched = <<>> THEN <<>> ELSE <<matched[Len(matched)]>>
  IN _createRoute(tbl, aliasedRecord,
                  [location EXCEPT !.params = aliasedMatch.params], <<>>)

\* _createRoute(record, location, redirectedFrom); record is <<>> for null
_createRoute(tbl, record, location, redirectedFrom) ==
  IF record # <<>> /\ record[1].redirect # NoRedirect
  THEN redirect(tbl, record[1],
                IF redirectedFrom # <<>> THEN redirectedFrom[1] ELSE location)
  ELSE IF record # <<>> /\ record[1].matchAs # NoPattern
  THEN alias(tbl, record[1], location, record[1].matchAs)
  ELSE newRoute(record, location, redirectedFrom)

\* --------------------------------------------- match, one call at a time
\* what match(raw, currentRoute, redirectedFrom) hands to _createRoute: the
\* record (<<>> for null), the location and redirectedFrom
found(tbl, raw, currentRoute, redirectedFrom) ==
  LET location == normalizeLocation(raw, currentRoute)
  IN IF location.name # ""
     THEN IF location.name \notin DOMAIN tbl.nameMap
          THEN [record |-> <<>>, location |-> location, from |-> <<>>]
          ELSE LET record == tbl.nameMap[location.name]
                   paramNames == requiredKeys(record.path)
                   params == [k \in ParamNames |->
                                IF /\ currentRoute # <<>>
                                   /\ location.params[k] = Absent
                                   /\ k \in paramNames
                                THEN currentRoute[1].params[k]
                                ELSE location.params[k]]
               IN [record |-> <<record>>,
                   location |-> [location EXCEPT !.params = params,
                                                 !.path = fillParams(record.path, params)],
                   from |-> redirectedFrom]
     ELSE IF location.path # NoPath
     THEN LET i == firstInList(tbl, location.path, 1)
          IN IF i = 0
             THEN [record |-> <<>>, location |-> [location EXCEPT !.params = NoParams],
                   from |-> <<>>]
             ELSE LET record == tbl.pathMap[tbl.pathList[i]]
                  IN [record |-> <<record>>,
                      location |-> [location EXCEPT
                                      !.params = regexParams(record.path, location.path)],
                      from |-> redirectedFrom]
     ELSE [record |-> <<>>, location |-> location, from |-> <<>>]

\* a redirect that calls match for no option
redirectCallNone(record, location) == <<>>

\* the call of match that redirect(record, location) ends in: its raw
\* location and its redirectedFrom; <<>> when the option has neither a name
\* nor a path and redirect returns _createRoute(null, location)
redirectCall(record, location) ==
  IF record.redirect.name # ""
  THEN <<[raw |-> Location(record.redirect.name, NoPath, location.query,
                           location.hash, location.params, TRUE, TRUE),
          from |-> <<location>>]>>
  ELSE IF record.redirect.path # NoPattern
  THEN <<[raw |-> Location("", fillParams(resolveRecordPath(record.redirect.path, record),
                                          location.params),
                           location.query, location.hash, NoParams, FALSE, TRUE),
          from |-> <<location>>]>>
  ELSE <<>>

\* the call of match that _createRoute(record, location, redirectedFrom)
\* ends in, <<>> when it returns without one
nextCall(f) ==
  IF f.record # <<>> /\ f.record[1].redirect # NoRedirect
  THEN redirectCall(f.record[1], IF f.from # <<>> THEN f.from[1] ELSE f.location)
  ELSE <<>>

\* what _createRoute(record, location, redirectedFrom) returns when it ends
\* in no call of match for a redirect
returned(tbl, f) ==
  IF f.record # <<>> /\ f.record[1].redirect # NoRedirect
  THEN newRoute(<<>>, IF f.from # <<>> THEN f.from[1] ELSE f.location, <<>>)
  ELSE IF f.record # <<>> /\ f.record[1].matchAs # NoPattern
  THEN alias(tbl, f.record[1], f.location, f.record[1].matchAs)
  ELSE newRoute(f.record, f.location, f.from)

\* ----------------------------------------------------------------- actions
\* the matcher before it is given routes and asked anything
NoMatcher ==
  /\ table = EmptyTable
  /\ asked = <<>>
  /\ answer = <<>>

\* no hook has been registered but the three of Boot, whose unregister
\* functions the application did not keep
NoHooks ==
  /\ issued = <<>>
  /\ removed = {}

Constructed ==
  /\ current = START
  /\ pending = NoRoute
  /\ ready = FALSE
  /\ readyCbs = <<>>
  /\ readyErrorCbs = <<>>
  /\ errorCbs = 0
  /\ beforeHooks = <<"beforeEach">>
  /\ resolveHooks = <<"beforeResolve">>
  /\ afterHooks = <<"afterEach">>
  /\ stack = <<>>
  /\ index = -1
  /\ components = [r \in Records |-> IF r \in LazyRecords THEN "factory" ELSE "resolved"]
  /\ instances = {}
  /\ navs = <<>>
  /\ waiting = <<>>
  /\ loading = <<>>
  /\ callStack = <<>>
  /\ fired = [ready |-> <<>>, readyErr |-> <<>>, error |-> 0, uncaught |-> 0,
              matchThrown |-> 0, rejected |-> 0,
              readyBy |-> "none", readyFromStart |-> FALSE]
  /\ spent = [deferred |-> 0, faults |-> 0]
  /\ apps = <<>>
  /\ app = 0
  /\ _route = [a \in 1..MaxApps |-> NoRoute]
  /\ listeners = <<>>
  /\ enteredCbs = [r \in Records |-> <<>>]
  /\ dying = {}
  /\ ticks = <<>>
  /\ entered = <<>>

\* a router in abstract mode after new VueRouter(options)
Boot ==
  /\ Constructed
  /\ address = NoWindow

\* a router in hash or history mode after new VueRouter(options), in a window
\* at '/'
BootInWindow ==
  /\ Constructed
  /\ address = Loc(<<>>, TRUE, "")

Init ==
  /\ Boot
  /\ NoMatcher
  /\ NoHooks
  /\ limit = [navs |-> MaxNavs, deferred |-> MaxDeferred, faults |-> MaxFaults]

\* no task is running
Idle == callStack = <<>>

\* the running task is at runQueue's step for a queue entry (AtGuard) or past
\* the end of the second queue (AtEnd)
AtStep == callStack # <<>> /\ Top(State).op = "step"

AtGuard == AtStep /\ Top(State).idx <= Len(Top(State).queue)

AtEnd == AtStep /\ Top(State).idx > Len(Top(State).queue)

Stale == pending # navs[Top(State).nav].route

\* The application starts a navigation when the view has rendered the current
\* route, and while the run may have another one.
CanStart == Len(navs) < limit.navs

Rendered == instances = Range(current.matched)

CanDefer == spent.deferred < limit.deferred

CanFail == spent.faults < limit.faults

\* what next(to) needs of the run's budget
Allowed(to) ==
  /\ to.kind \notin {"proceed", "callback"} => CanFail
  /\ to.kind = "redirect" => CanStart

Charged(s, to) == IF to.kind \in {"proceed", "callback"} THEN s ELSE Fault(s)

\* router.push(location, onComplete, onAbort)
Push(loc) ==
  /\ Idle /\ CanStart /\ Rendered
  /\ Becomes(settle(push(Forget(State), loc, Callbacks)))

\* router.replace(location, onComplete, onAbort)
Replace(loc) ==
  /\ Idle /\ CanStart /\ Rendered
  /\ Becomes(settle(replace(Forget(State), loc, Callbacks)))

\* router.push(location) and router.replace(location) with neither callback
PushPromise(loc) ==
  /\ Idle /\ CanStart /\ Rendered
  /\ Becomes(settle(push(Forget(State), loc, NoCallbacks)))

ReplacePromise(loc) ==
  /\ Idle /\ CanStart /\ Rendered
  /\ Becomes(settle(replace(Forget(State), loc, NoCallbacks)))

\* router.push to a location whose match throws, with callbacks or without
PushThrows(loc, by) ==
  /\ Idle /\ Rendered /\ fired.matchThrown < MaxThrows
  /\ Becomes(settle(push(Forget(State), loc, by)))

\* router.go(d); a target outside the stack returns at once and changes nothing
Go(d) ==
  /\ Idle /\ CanStart /\ Rendered
  /\ index + d >= 0 /\ index + d < Len(stack)
  /\ Becomes(settle(go(Forget(State), d)))

\* iterator, and the final check of the second queue, for a navigation that
\* is no longer the pending one: abort(cancelled)
Cancel ==
  /\ AtStep /\ Stale
  /\ Becomes(settle(abort(PopFrame(Forget(State)), Top(State).nav, "cancelled")))

\* what the hook of a guard does when the iterator calls it
GuardAnswers ==
  {Proceed, False, AnError} \cup {Redirect(t) : t \in RedirectTargets}

\* the iterator going on to the next queue entry when the hook returns,
\* whether or not the hook has called next
InvokeNoWait(how, to) ==
  /\ AtGuard /\ ~Stale
  /\ Top(State).queue[Top(State).idx].type # "resolveAsyncComponents"
  /\ how = "defer" /\ to = Proceed /\ CanDefer
  /\ LET f == Top(State)
         s1 == Ran(Note(PopFrame(Forget(State)), f.nav, f.queue[f.idx].type),
                   f.nav, f.queue[f.idx])
         s2 == [Defer(s1) EXCEPT !.waiting =
                  Append(s1.waiting, [nav |-> f.nav, queue |-> f.queue,
                                      idx |-> f.idx, stage |-> f.stage])]
     IN Becomes(settle(PushFrame(s2, Frame("step", f.nav, f.queue, f.idx + 1, f.stage, 0))))

\* iterator(hook, next) for a guard of the application.  how is what the hook
\* does before it returns: it throws, it keeps next for later ("defer"), or it
\* calls next(to) at once ("next").
Invoke(how, to) ==
  /\ AtGuard /\ ~Stale
  /\ Top(State).queue[Top(State).idx].type # "resolveAsyncComponents"
  /\ how # "next" => to = Proceed
  /\ how = "next" => Allowed(to)
  /\ how = "throw" => CanFail
  /\ how = "defer" => CanDefer
  /\ LET f == Top(State)
         s1 == Ran(Note(PopFrame(Forget(State)), f.nav, f.queue[f.idx].type),
                   f.nav, f.queue[f.idx])
         inTry == PushFrame(s1, Frame("try", f.nav, <<>>, 0, 0, 0))
     IN CASE how = "throw" -> Becomes(settle(throw(Fault(inTry), "Thrown")))
          [] how = "defer" ->
               Becomes(settle([Defer(s1) EXCEPT !.waiting =
                                 Append(s1.waiting, [nav |-> f.nav, queue |-> f.queue,
                                            idx |-> f.idx, stage |-> f.stage])]))
          [] how = "next" ->
               Becomes(settle(nextCallback(
                                bindEnterGuard(Charged(inTry, to), f.nav, f.queue[f.idx], to),
                                f.nav, f.queue, f.idx, f.stage, to)))

\* iterator(hook, next) for the hook resolveAsyncComponents(activated): its
\* loop over the components of the activated records starts
RunResolver ==
  /\ AtGuard /\ ~Stale
  /\ Top(State).queue[Top(State).idx].type = "resolveAsyncComponents"
  /\ LET f == Top(State)
         s1 == Note(PopFrame(Forget(State)), f.nav, "resolveAsyncComponents")
         s2 == [s1 EXCEPT !.navs[f.nav].hasAsync = FALSE,
                          !.navs[f.nav].pendingCount = 0,
                          !.navs[f.nav].error = FALSE]
     IN Becomes(settle(PushFrame(PushFrame(s2, Frame("try", f.nav, <<>>, 0, 0, 0)),
                                 Frame("loop", f.nav, f.queue, f.idx, f.stage, 1))))

\* resolveAsyncComponents calls the factory def(resolve, reject) of the next
\* lazy component.  out: the factory calls resolve at once ("resolve"), throws
\* or calls reject at once ("reject"), or answers later ("defer").
CallFactory(out) ==
  /\ callStack # <<>> /\ Top(State).op = "loop"
  /\ out = "defer" => CanDefer
  /\ out = "reject" => CanFail
  /\ LET f == Top(State)
         r == navs[f.nav].activated[f.comp]
         s1 == Note([PopFrame(Forget(State)) EXCEPT
                       !.navs[f.nav].hasAsync = TRUE,
                       !.navs[f.nav].pendingCount = navs[f.nav].pendingCount + 1],
                    f.nav, "factory")
         s2 == PushFrame(s1, [f EXCEPT !.comp = f.comp + 1])
         inTry == PushFrame(s2, Frame("tryFactory", f.nav, <<>>, 0, 0, 0))
     IN CASE out = "defer" ->
               Becomes(settle([Defer(s2) EXCEPT !.loading =
                                 Append(s2.loading, [nav |-> f.nav, rec |-> r,
                                            queue |-> f.queue, idx |-> f.idx])]))
          [] out = "resolve" ->
               Becomes(settle(resolve(inTry, f.nav, r, f.queue, f.idx)))
          [] out = "reject" ->
               Becomes(settle(throw(Fault(inTry), "Thrown")))

\* a guard that kept next calls it now, with to
Answer(k, to) ==
  /\ Idle /\ k \in DOMAIN waiting
  /\ to \in GuardAnswers \cup {WithCallback} /\ Allowed(to)
  /\ LET w == waiting[k]
         s1 == [Forget(State) EXCEPT !.waiting = RemoveAt(waiting, k)]
     IN Becomes(settle(nextCallback(bindEnterGuard(Charged(s1, to), w.nav, w.queue[w.idx], to),
                                    w.nav, w.queue, w.idx, w.stage, to)))

\* a lazy component arrives: its factory's promise calls resolve
Loaded(k) ==
  /\ Idle /\ k \in DOMAIN loading
  /\ LET l == loading[k]
         s1 == [Forget(State) EXCEPT !.loading = RemoveAt(loading, k)]
     IN Becomes(settle(resolve(s1, l.nav, l.rec, l.queue, l.idx)))

\* a lazy component fails to load: its factory's promise calls reject
LoadFailed(k) ==
  /\ Idle /\ k \in DOMAIN loading /\ CanFail
  /\ LET l == loading[k]
         s1 == [Forget(State) EXCEPT !.loading = RemoveAt(loading, k)]
     IN Becomes(settle(reject(Fault(s1), l.nav, "Error")))

\* the completion callback of the second queue for the pending navigation:
\* pending = null, onComplete(route)
Commit(thrower) ==
  /\ AtEnd /\ ~Stale
  /\ thrower # "none" => CanFail
  /\ LET f == Top(State)
         nav == navs[f.nav]
         s1 == Supersede([PopFrame(Forget(State)) EXCEPT !.pending = NoRoute], f.nav)
     IN /\ thrower = "onComplete" => nav.kind # "go" /\ nav.by = Callbacks
        /\ thrower = "afterEach" => afterHooks # <<>>
        /\ Becomes(settle(IF thrower = "none"
                           THEN nextTick(onComplete(s1, f.nav, thrower), nav.route)
                           ELSE onComplete(Fault(s1), f.nav, thrower)))

\* History.onReady(cb, errorCb); errorCb is optional
onReady(s, withErrorCb) ==
  LET id == Len(s.fired.ready) + 1
  IN IF s.ready
     THEN [s EXCEPT !.fired.ready = Append(s.fired.ready, 1),
                    !.fired.readyErr = Append(s.fired.readyErr, 0)]
     ELSE [s EXCEPT !.readyCbs = Append(s.readyCbs, id),
                    !.readyErrorCbs = IF withErrorCb THEN Append(s.readyErrorCbs, id)
                                      ELSE s.readyErrorCbs,
                    !.fired.ready = Append(s.fired.ready, 0),
                    !.fired.readyErr = Append(s.fired.readyErr, 0)]

\* router.onReady(cb, errorCb)
OnReady(withErrorCb) ==
  /\ Idle /\ Len(fired.ready) < MaxCbs
  /\ Becomes(onReady(Forget(State), withErrorCb))

\* router.onError(errorCb)
OnError ==
  /\ Idle /\ errorCbs < MaxCbs
  /\ Becomes([Forget(State) EXCEPT !.errorCbs = errorCbs + 1])

\* the view layer renders the current route: the components of its matched
\* records are mounted and register their instances, the others unregister
Render ==
  /\ Idle /\ instances # Range(current.matched)
  /\ LET s1 == [Forget(State) EXCEPT !.instances = Range(current.matched),
                                     !.dying = dying \cap Range(current.matched)]
     IN Becomes(IF Range(current.matched) \ instances # {}
                THEN handleRouteEntered(s1, s1.current)
                ELSE s1)

Next ==
  \/ \E loc \in Locations : Push(loc)
  \/ \E loc \in ReplaceLocations : Replace(loc)
  \/ \E d \in {-1, 1} : Go(d)
  \/ Cancel
  \/ \E how \in {"throw", "defer", "next"}, to \in GuardAnswers : Invoke(how, to)
  \/ RunResolver
  \/ \E out \in {"defer", "resolve", "reject"} : CallFactory(out)
  \/ \E k \in 1..MaxDeferred, to \in GuardAnswers : Answer(k, to)
  \/ \E k \in 1..MaxDeferred : Loaded(k)
  \/ \E k \in 1..MaxDeferred : LoadFailed(k)
  \/ \E thrower \in {"none", "onComplete", "afterEach"} : Commit(thrower)
  \/ Render

Spec == Init /\ [][Next]_vars

\* ------------------------------------------- runs with ready callbacks
InitReady ==
  /\ Boot
  /\ NoMatcher
  /\ NoHooks
  /\ limit = [navs |-> ReadyNavs, deferred |-> ReadyDeferred, faults |-> ReadyFaults]

NextReady ==
  \/ \E loc \in Locations : Push(loc)
  \/ \E loc \in ReplaceLocations : Replace(loc)
  \/ Cancel
  \/ \E how \in {"throw", "defer", "next"}, to \in GuardAnswers : Invoke(how, to)
  \/ RunResolver
  \/ \E out \in {"defer", "resolve", "reject"} : CallFactory(out)
  \/ \E k \in 1..ReadyDeferred, to \in GuardAnswers : Answer(k, to)
  \/ \E k \in 1..ReadyDeferred : Loaded(k)
  \/ \E k \in 1..ReadyDeferred : LoadFailed(k)
  \/ \E thrower \in {"none", "onComplete", "afterEach"} : Commit(thrower)
  \/ \E withErrorCb \in BOOLEAN : OnReady(withErrorCb)
  \/ Render

SpecReady == InitReady /\ [][NextReady]_vars

\* ------------------------------------- runs that walk the history stack
InitGo ==
  /\ Boot
  /\ NoMatcher
  /\ NoHooks
  /\ limit = [navs |-> GoNavs, deferred |-> GoDeferred, faults |-> 0]

NextGo ==
  \/ \E loc \in GoLocations : Push(loc)
  \/ \E d \in {-1, 1} : Go(d)
  \/ Cancel
  \/ \E how \in {"defer", "next"} : Invoke(how, Proceed)
  \/ RunResolver
  \/ CallFactory("resolve")
  \/ \E k \in 1..GoDeferred : Answer(k, Proceed)
  \/ Commit("none")
  \/ Render

SpecGo == InitGo /\ [][NextGo]_vars

\* ------------- runs with promises, error callbacks and a match that throws
InitApi ==
  /\ Boot
  /\ NoMatcher
  /\ NoHooks
  /\ limit = [navs |-> ApiNavs, deferred |-> ApiDeferred, faults |-> ApiFaults]

NextApi ==
  \/ \E loc \in Locations : PushPromise(loc)
  \/ \E loc \in ReplaceLocations : ReplacePromise(loc)
  \/ \E loc \in ThrowingLocations, by \in {Callbacks, NoCallbacks} : PushThrows(loc, by)
  \/ OnError
  \/ Cancel
  \/ \E how \in {"throw", "defer", "next"}, to \in GuardAnswers : Invoke(how, to)
  \/ RunResolver
  \/ \E out \in {"defer", "resolve", "reject"} : CallFactory(out)
  \/ \E k \in 1..ApiDeferred, to \in GuardAnswers : Answer(k, to)
  \/ \E k \in 1..ApiDeferred : Loaded(k)
  \/ \E k \in 1..ApiDeferred : LoadFailed(k)
  \/ \E thrower \in {"none", "afterEach"} : Commit(thrower)
  \/ Render

SpecApi == InitApi /\ [][NextApi]_vars

\* ------------------------------------------------ runs of the matcher
\* the most records a table holds before routes stop being added
MaxRecords == 3

\* the most calls of match between two changes of the table
MaxAsks == 1

Static(a) == Pattern(TRUE, <<Seg("static", a)>>)

\* '/u/:id/:tab?'
UserPattern == Pattern(TRUE, <<Seg("static", "u"), Seg("param", "id"), Seg("optional", "tab")>>)

\* '/v/:id'
UserAlias == Pattern(TRUE, <<Seg("static", "v"), Seg("param", "id")>>)

\* '/u/new'
NewPattern == Pattern(TRUE, <<Seg("static", "u"), Seg("static", "new")>>)

\* { path: '/a', name: 'a', alias: '/b' }
RouteA == RouteConfig(Static("a"), "a", <<Static("b")>>, NoRedirect, <<>>)

\* { path: '*' }
RouteStar == RouteConfig(Star, "", <<>>, NoRedirect, <<>>)

\* { path: '/u/:id/:tab?', name: 'user', alias: '/v/:id' }
RouteUser == RouteConfig(UserPattern, "user", <<UserAlias>>, NoRedirect, <<>>)

\* { path: '/u/new' }
RouteNew == RouteConfig(NewPattern, "", <<>>, NoRedirect, <<>>)

\* { path: '/old', redirect: '/a' }
RouteOld == RouteConfig(Static("old"), "", <<>>, RedirectPath(Static("a")), <<>>)

\* { path: '/older', redirect: '/old' }
RouteOlder == RouteConfig(Static("older"), "", <<>>, RedirectPath(Static("old")), <<>>)

\* { path: '/r', redirect: '/b' }
RouteR == RouteConfig(Static("r"), "", <<>>, RedirectPath(Static("b")), <<>>)

\* { path: '/n', redirect: { name: 'user' } }
RouteN == RouteConfig(Static("n"), "", <<>>, RedirectName("user"), <<>>)

\* { path: 'c', name: 'c' }
RouteChild == RouteConfig(Pattern(FALSE, <<Seg("static", "c")>>), "c", <<>>, NoRedirect, <<>>)

Configs == {RouteA, RouteStar, RouteUser, RouteNew, RouteOld, RouteOlder, RouteR, RouteN}

\* the arrays of routes given to createMatcher and addRoutes
Batches ==
  {<<r>> : r \in Configs}
    \cup {<<RouteStar, RouteA>>, <<RouteNew, RouteUser>>, <<RouteA, RouteOld>>,
          <<RouteStar, RouteUser>>}

RawPath(segs, query, hash) == Location("", Path(TRUE, segs), query, hash, NoParams, FALSE, FALSE)

RawName(name, params, withParams) == Location(name, NoPath, "", "", params, withParams, FALSE)

Params(id, tab) == [k \in ParamNames |-> IF k = "id" THEN id ELSE IF k = "tab" THEN tab ELSE Absent]

\* the locations match is asked about
RawLocations ==
  {RawPath(segs, "", "") :
     segs \in {<<"a">>, <<"b">>, <<"a", "c">>, <<"b", "c">>, <<"u", "5">>,
               <<"u", "5", "info">>, <<"v", "5">>, <<"u", "new">>, <<"v", "new">>,
               <<"old">>, <<"older">>, <<"r">>, <<"n">>, <<"zzz">>}}
    \cup {RawPath(segs, "q=1", "#h") : segs \in {<<"b">>, <<"older">>, <<"r">>, <<"zzz">>}}
    \cup {RawName("a", NoParams, FALSE), RawName("nope", NoParams, FALSE),
          RawName("user", NoParams, FALSE),
          RawName("user", Params(<<"7">>, Absent), TRUE),
          RawName("user", Params(Absent, <<"info">>), TRUE),
          \* {}, { params: { id: '9' } } and a normalized location without
          \* name and path
          Location("", NoPath, "", "", NoParams, FALSE, FALSE),
          Location("", NoPath, "", "", Params(<<"9">>, Absent), TRUE, FALSE),
          Location("", NoPath, "", "", NoParams, FALSE, TRUE)}

\* where the current route handed to match comes from: nowhere, or from
\* matching one of these locations
CurrentLocations ==
  {RawPath(<<"u", "5">>, "", ""), RawPath(<<"u", "5", "info">>, "", ""),
   RawPath(<<"a">>, "", ""), RawPath(<<"zzz">>, "", "")}

\* new VueRouter({ routes }): createMatcher(routes)
InitMatcher ==
  /\ Boot
  /\ NoHooks
  /\ limit = [navs |-> 0, deferred |-> 0, faults |-> 0]
  /\ \E routes \in Batches : table = createRouteMap(EmptyTable, routes, <<>>)
  /\ asked = <<>>
  /\ answer = <<>>

Room == table.nextId <= MaxRecords

Asking == Len(asked) < MaxAsks

\* router.addRoutes(routes)
AddRoutes(routes) ==
  /\ Room
  /\ table' = addRoutes(table, routes)
  /\ asked' = <<>>
  /\ answer' = <<>>
  /\ UNCHANGED engineVars
  /\ UNCHANGED hookVars

\* router.addRoute(route)
AddRoute(route) ==
  /\ Room
  /\ table' = addRoute(table, "", route)
  /\ asked' = <<>>
  /\ answer' = <<>>
  /\ UNCHANGED engineVars
  /\ UNCHANGED hookVars

\* router.addRoute(parentName, route)
AddChild(parentName, route) ==
  /\ Room
  /\ table' = addRoute(table, parentName, route)
  /\ asked' = <<>>
  /\ answer' = <<>>
  /\ UNCHANGED engineVars
  /\ UNCHANGED hookVars

\* router.match(raw) with no current route; asked and answer keep the calls
\* made since the table last changed and what they returned
Match(raw) ==
  /\ Asking
  /\ asked' = Append(asked, [raw |-> raw, currentRoute |-> <<>>])
  /\ answer' = Append(answer, matcherMatch(table, raw, <<>>, <<>>))
  /\ UNCHANGED table
  /\ UNCHANGED engineVars
  /\ UNCHANGED hookVars

\* router.match(raw, currentRoute), the current route being what match
\* returned for a location
MatchFrom(raw, from) ==
  LET currentRoute == <<matcherMatch(table, from, <<>>, <<>>)>>
  IN /\ Asking
     /\ asked' = Append(asked, [raw |-> raw, currentRoute |-> currentRoute])
     /\ answer' = Append(answer, matcherMatch(table, raw, currentRoute, <<>>))
     /\ UNCHANGED table
     /\ UNCHANGED engineVars
     /\ UNCHANGED hookVars

NextMatcher ==
  \/ \E routes \in Batches : AddRoutes(routes)
  \/ \E route \in Configs : AddRoute(route)
  \/ \E parentName \in {"a", "user"} : AddChild(parentName, RouteChild)
  \/ \E raw \in RawLocations : Match(raw)
  \/ \E raw \in RawLocations, from \in CurrentLocations : MatchFrom(raw, from)

SpecMatcher == InitMatcher /\ [][NextMatcher]_vars

\* --------------------------------------------- runs that follow redirects
\* the number of calls of match up to which a run counts them
MaxHops == 4

\* { path: '/x', redirect: '/y' } and { path: '/y', redirect: '/x' }
RouteX == RouteConfig(Static("x"), "", <<>>, RedirectPath(Static("y")), <<>>)

RouteY == RouteConfig(Static("y"), "", <<>>, RedirectPath(Static("x")), <<>>)

\* { path: '/s', redirect: '/s' }
RouteSelf == RouteConfig(Static("s"), "", <<>>, RedirectPath(Static("s")), <<>>)

\* { path: '/m', name: 'm', redirect: { name: 'm' } }
RouteM == RouteConfig(Static("m"), "m", <<>>, RedirectName("m"), <<>>)

\* { path: '/in', redirect: '/x' }
RouteIn == RouteConfig(Static("in"), "", <<>>, RedirectPath(Static("x")), <<>>)

RedirectBatches ==
  {<<RouteX, RouteY>>, <<RouteSelf>>, <<RouteM>>, <<RouteIn, RouteX, RouteY>>,
   <<RouteA, RouteOld, RouteOlder>>, <<RouteOlder, RouteX>>, <<RouteR, RouteA>>,
   <<RouteN, RouteUser>>, <<RouteOlder, RouteOld, RouteX, RouteA>>}

RedirectLocations ==
  {RawPath(segs, "", "") :
     segs \in {<<"x">>, <<"y">>, <<"s">>, <<"m">>, <<"in">>, <<"a">>, <<"b">>,
               <<"old">>, <<"older">>, <<"r">>, <<"n">>, <<"zzz">>}}
    \cup {RawName("m", NoParams, FALSE), RawName("a", NoParams, FALSE),
          RawPath(<<"older">>, "q=1", "#h")}

InitRedirect ==
  /\ Boot
  /\ NoHooks
  /\ limit = [navs |-> 0, deferred |-> 0, faults |-> 0]
  /\ \E routes \in RedirectBatches : table = createRouteMap(EmptyTable, routes, <<>>)
  /\ asked = <<>>
  /\ answer = <<>>

\* a call of match has not returned
InMatch == Len(answer) < Len(asked)

\* where the call that has not returned is: what its innermost match found
Innermost == found(table, asked[Len(asked)].at, <<>>, asked[Len(asked)].from)

\* router.match(raw) is called
CallMatch(raw) ==
  /\ Asking /\ ~InMatch
  /\ asked' = Append(asked, [raw |-> raw, at |-> raw, from |-> <<>>, calls |-> 1])
  /\ UNCHANGED <<table, answer>>
  /\ UNCHANGED engineVars
  /\ UNCHANGED hookVars

\* _createRoute finds a redirect option and redirect calls match again
FollowRedirect ==
  /\ InMatch
  /\ nextCall(Innermost) # <<>>
  /\ asked' = [asked EXCEPT ![Len(asked)].at = nextCall(Innermost)[1].raw,
                            ![Len(asked)].from = nextCall(Innermost)[1].from,
                            ![Len(asked)].calls =
                               IF @ < MaxHops THEN @ + 1 ELSE MaxHops]
  /\ UNCHANGED <<table, answer>>
  /\ UNCHANGED engineVars
  /\ UNCHANGED hookVars

\* _createRoute returns a Route, and so does every call of match around it
Return ==
  /\ InMatch
  /\ nextCall(Innermost) = <<>>
  /\ \E f \in {Innermost} : answer' = Append(answer, returned(table, f))
  /\ UNCHANGED <<table, asked>>
  /\ UNCHANGED engineVars
  /\ UNCHANGED hookVars

NextRedirect ==
  \/ \E raw \in RedirectLocations : CallMatch(raw)
  \/ FollowRedirect
  \/ Return

\* match is synchronous code: a call that can go on does
SpecRedirect ==
  InitRedirect /\ [][NextRedirect]_vars /\ WF_vars(FollowRedirect) /\ WF_vars(Return)

\* --------------------------------- runs that register and unregister hooks
\* the most navigations and the most registrations of a run
HookNavs == 1

MaxHooks == 3

\* the three lists of hooks of the router
HookLists == {"beforeHooks", "resolveHooks", "afterHooks"}

\* the functions the application registers
HookFns == {"f", "g"}

\* list.indexOf(fn): the place of the first fn, 0 for -1
RECURSIVE indexOf(_, _, _)
indexOf(list, fn, i) ==
  IF i > Len(list) THEN 0
  ELSE IF list[i] = fn THEN i
  ELSE indexOf(list, fn, i + 1)

\* the function registerHook returns:
\* const i = list.indexOf(fn); if (i > -1) list.splice(i, 1)
unregister(list, fn) ==
  LET i == indexOf(list, fn, 1)
  IN IF i > 0 THEN RemoveAt(list, i) ELSE list

\* the list of the router that a name stands for
hooksOf(s, list) ==
  IF list = "beforeHooks" THEN s.beforeHooks
  ELSE IF list = "resolveHooks" THEN s.resolveHooks
  ELSE s.afterHooks

withHooks(s, list, hooks) ==
  IF list = "beforeHooks" THEN [s EXCEPT !.beforeHooks = hooks]
  ELSE IF list = "resolveHooks" THEN [s EXCEPT !.resolveHooks = hooks]
  ELSE [s EXCEPT !.afterHooks = hooks]

\* the engine becomes s while the hooks' variables change
BecomesWith(s) ==
  /\ EngineBecomes(s)
  /\ UNCHANGED matcherVars

\* router.beforeEach(fn), router.beforeResolve(fn), router.afterEach(fn):
\* registerHook(list, fn) pushes fn and returns the unregister function
RegisterHook(list, fn) ==
  /\ Idle /\ Len(issued) < MaxHooks
  /\ BecomesWith(withHooks(Forget(State), list, Append(hooksOf(State, list), fn)))
  /\ issued' = Append(issued, [list |-> list, fn |-> fn])
  /\ UNCHANGED removed

\* the application calls the u-th unregister function
Unregister(u) ==
  /\ Idle /\ u \in DOMAIN issued
  /\ BecomesWith(withHooks(Forget(State), issued[u].list,
                           unregister(hooksOf(State, issued[u].list), issued[u].fn)))
  /\ removed' = removed \cup {u}
  /\ UNCHANGED issued

InitHooks ==
  /\ Boot
  /\ NoMatcher
  /\ NoHooks
  /\ limit = [navs |-> HookNavs, deferred |-> 0, faults |-> 0]

NextHooks ==
  \/ \E list \in HookLists, fn \in HookFns : RegisterHook(list, fn)
  \/ \E u \in 1..MaxHooks : Unregister(u)
  \/ \E loc \in GoLocations : Push(loc)
  \/ Invoke("next", Proceed)
  \/ RunResolver
  \/ CallFactory("resolve")
  \/ Commit("none")
  \/ Render

SpecHooks == InitHooks /\ [][NextHooks]_vars

\* ------------------------------------- runs through nested records
\* the most navigations of a run
OrderNavs == 2

\* the locations under the record of '/a'
NestedLocations ==
  { Loc(<<"a", "b", "c">>, FALSE, ""), Loc(<<"a", "b", "d">>, FALSE, ""),
    Loc(<<"a">>, FALSE, "") }

InitOrder ==
  /\ Boot
  /\ NoMatcher
  /\ NoHooks
  /\ limit = [navs |-> OrderNavs, deferred |-> 0, faults |-> 0]

NextOrder ==
  \/ \E list \in HookLists, fn \in HookFns : RegisterHook(list, fn)
  \/ \E u \in 1..MaxHooks : Unregister(u)
  \/ \E loc \in NestedLocations : Push(loc)
  \/ Invoke("next", Proceed)
  \/ RunResolver
  \/ Commit("none")
  \/ Render

SpecOrder == InitOrder /\ [][NextOrder]_vars

\* ------------------------------ runs that add routes while navigating
\* the most navigations of a run, and the most records added in it
AddNavs == 4

AddDeferred == 1

MaxAdds == 2

\* router.addRoute(route): matcher.addRoute, then the current location is
\* resolved again
RouterAddRoute(route) ==
  /\ Idle /\ CanStart /\ table.nextId <= MaxAdds
  /\ EngineBecomes(settle(reResolve(Forget(State))))
  /\ table' = addRoute(table, "", route)
  /\ UNCHANGED <<asked, answer>>
  /\ UNCHANGED hookVars

\* router.addRoutes(routes): matcher.addRoutes, then the same
RouterAddRoutes(routes) ==
  /\ Idle /\ CanStart /\ table.nextId <= MaxAdds
  /\ EngineBecomes(settle(reResolve(Forget(State))))
  /\ table' = addRoutes(table, routes)
  /\ UNCHANGED <<asked, answer>>
  /\ UNCHANGED hookVars

\* createHref(base, fullPath, mode) without a base, in abstract mode
createHref(fullPath) == fullPath

\* history.current as the Route the matcher reads: the routes of these runs
\* have neither names nor params
currentRoute(s) ==
  newRoute(<<>>, Location("", Path(TRUE, s.current.path.segs), "", s.current.hash,
                          NoParams, FALSE, TRUE), <<>>)

\* router.resolve(to): { location, route, href }
routerResolve(s, tbl, to) ==
  LET location == normalizeLocation(to, <<currentRoute(s)>>)
      route == matcherMatch(tbl, location, <<currentRoute(s)>>, <<>>)
      fullPath == IF route.redirectedFrom # NoFullPath THEN route.redirectedFrom
                  ELSE route.fullPath
  IN [location |-> location, route |-> route, href |-> createHref(fullPath)]

\* the targets the application asks router.resolve about
ResolveTargets ==
  {RawPath(<<"u", "new">>, "", ""), RawPath(<<"old">>, "q=1", "#h"),
   RawName("nope", NoParams, FALSE)}

\* a resolve that navigates to what it resolved
ResolveAndGo(to) ==
  /\ Idle /\ Asking /\ CanStart
  /\ asked' = Append(asked, [raw |-> to, currentRoute |-> <<currentRoute(State)>>])
  /\ answer' = Append(answer, routerResolve(State, table, to))
  /\ EngineBecomes(settle(push(Forget(State), Loc(<<"p", "x">>, FALSE, ""), Callbacks)))
  /\ UNCHANGED table
  /\ UNCHANGED hookVars

\* router.resolve(to)
Resolve(to) ==
  /\ Idle /\ Asking
  /\ asked' = Append(asked, [raw |-> to, currentRoute |-> <<currentRoute(State)>>])
  /\ answer' = Append(answer, routerResolve(State, table, to))
  /\ UNCHANGED table
  /\ UNCHANGED engineVars
  /\ UNCHANGED hookVars

InitAdd ==
  /\ Boot
  /\ NoMatcher
  /\ NoHooks
  /\ limit = [navs |-> AddNavs, deferred |-> AddDeferred, faults |-> 0]

NextAdd ==
  \/ \E loc \in GoLocations : Push(loc)
  \/ \E d \in {-1, 1} : Go(d)
  \/ RouterAddRoute(RouteNew)
  \/ RouterAddRoutes(<<RouteOld>>)
  \/ \E to \in ResolveTargets : Resolve(to)
  \/ Cancel
  \/ \E how \in {"defer", "next"} : Invoke(how, Proceed)
  \/ RunResolver
  \/ CallFactory("resolve")
  \/ \E k \in 1..AddDeferred : Answer(k, Proceed)
  \/ Commit("none")
  \/ Render

SpecAdd == InitAdd /\ [][NextAdd]_vars

\* ------------------------------------ runs that walk and replace the stack
StackNavs == 4

StackDeferred == 1

\* router.go(d) for a target outside the stack
GoOutside(d) ==
  /\ Idle /\ CanStart /\ Rendered
  /\ index + d < 0 \/ index + d >= Len(stack)
  /\ Becomes(settle(go(Forget(State), d)))

InitStack ==
  /\ Boot
  /\ NoMatcher
  /\ NoHooks
  /\ limit = [navs |-> StackNavs, deferred |-> StackDeferred, faults |-> 0]

NextStack ==
  \/ \E loc \in GoLocations : Push(loc)
  \/ \E loc \in GoLocations : Replace(loc)
  \/ \E d \in {-1, 1} : Go(d)
  \/ \E d \in {-1, 1} : GoOutside(d)
  \/ RouterAddRoute(RouteNew)
  \/ Cancel
  \/ \E how \in {"defer", "next"} : Invoke(how, Proceed)
  \/ RunResolver
  \/ CallFactory("resolve")
  \/ \E k \in 1..StackDeferred : Answer(k, Proceed)
  \/ Commit("none")
  \/ Render

SpecStack == InitStack /\ [][NextStack]_vars

\* ------------------------------------- runs that create and destroy roots
\* teardown(): the listeners are cleaned up, current is START again and
\* pending null.  Bookkeeping for the properties: the navigations with a guard
\* or a factory still to answer are noted as in flight at the teardown.
teardown(s) ==
  LET mark(nav) == IF nav.kind # "gone" /\ ~Has(nav.trace, "teardown")
                   THEN [nav EXCEPT !.trace = Append(nav.trace, "teardown")]
                   ELSE nav
      s1 == Forget(s)
  IN [s1 EXCEPT !.listeners = <<>>,
                !.current = START,
                !.pending = NoRoute,
                !.navs = AsSeq([i \in DOMAIN s1.navs |-> mark(s1.navs[i])])]

\* an init that makes the first transition for every root
initEach(s, a) ==
  LET s1 == [s EXCEPT !.apps = Append(s.apps, a)]
      s2 == IF s1.app # 0 THEN s1 ELSE [s1 EXCEPT !.app = a]
  IN IF s2.address # NoWindow
     THEN transitionTo(s2, getCurrentLocation(s2), "init", NoAdapter)
     ELSE s2

\* router.init(app): the root is pushed to apps; with a main root already
\* there nothing else happens; otherwise the root becomes the main root and,
\* in hash and history mode, history.transitionTo(getCurrentLocation(),
\* setupListeners, setupListeners).  An abstract history makes no first
\* transition.  history.listen is what updateRoute calls.
init(s, a) ==
  LET s1 == [s EXCEPT !.apps = Append(s.apps, a)]
  IN IF s1.app # 0 THEN s1
     ELSE IF s1.address # NoWindow
     THEN transitionTo([s1 EXCEPT !.app = a], getCurrentLocation(s1), "init", NoAdapter)
     ELSE [s1 EXCEPT !.app = a]

\* beforeCreate of a root with the router option: this._router.init(this),
\* then defineReactive(this, '_route', this._router.history.current)
beforeCreate(s, a) == init(PushFrame(s, Frame("beforeCreate", 0, <<>>, 0, 0, a)), a)

\* the handler of hook:destroyed that init registers for the root
destroyed(s, a) ==
  LET rest == SelectSeq(s.apps, LAMBDA x : x # a)
      s1 == [s EXCEPT !.apps = rest,
                      !.app = IF s.app = a THEN (IF rest # <<>> THEN rest[1] ELSE 0)
                              ELSE s.app]
  IN IF s1.app = 0 THEN teardown(s1) ELSE s1

\* new Vue({ router }): a root is created
NewRoot(a) ==
  /\ Idle
  /\ \A i \in DOMAIN apps : apps[i] # a
  /\ Becomes(settle(beforeCreate(Forget(State), a)))

\* root.$destroy(); the root object is not used again
DestroyRoot(a) ==
  /\ Idle
  /\ \E i \in DOMAIN apps : apps[i] = a
  /\ Becomes([destroyed(Forget(State), a) EXCEPT !._route[a] = NoRoute])

InitApp ==
  /\ Boot
  /\ NoMatcher
  /\ NoHooks
  /\ limit = [navs |-> AppNavs, deferred |-> AppDeferred, faults |-> AppFaults]

NextApp ==
  \/ \E a \in 1..MaxApps : NewRoot(a)
  \/ \E a \in 1..MaxApps : DestroyRoot(a)
  \/ \E loc \in GoLocations : Push(loc)
  \/ Go(0 - 1)
  \/ Cancel
  \/ \E how \in {"defer", "next"}, to \in {Proceed, False} : Invoke(how, to)
  \/ RunResolver
  \/ CallFactory("resolve")
  \/ \E k \in 1..AppDeferred, to \in {Proceed, False, Redirect([loc |-> Loc(<<"p", "y">>, FALSE, ""), replace |-> FALSE])} : Answer(k, to)
  \/ Commit("none")
  \/ Render

SpecApp == InitApp /\ [][NextApp]_vars

\* ------------------------- runs with callbacks of beforeRouteEnter guards
\* router.push(location, onComplete, onAbort) before the view has rendered
\* the route of the last commit
PushNow(loc) ==
  /\ Idle /\ CanStart /\ ~Rendered
  /\ Becomes(settle(push(Forget(State), loc, Callbacks)))

\* the function $nextTick holds is called
Tick ==
  /\ Idle /\ ticks # <<>>
  /\ Becomes(handleRouteEntered([Forget(State) EXCEPT !.ticks = Tail(ticks)], Head(ticks)))

\* Vue starts to destroy the instance of record r: _isBeingDestroyed = true
BeginDestroy(r) ==
  /\ Idle /\ r \in instances /\ r \notin dying
  /\ Becomes([Forget(State) EXCEPT !.dying = dying \cup {r}])

\* the destroyed hook of the instance: registerRouteInstance(vm, undefined)
EndDestroy(r) ==
  /\ Idle /\ r \in dying
  /\ Becomes([Forget(State) EXCEPT !.dying = dying \ {r}, !.instances = instances \ {r}])

InitEnter ==
  /\ Boot
  /\ NoMatcher
  /\ NoHooks
  /\ limit = [navs |-> EnterNavs, deferred |-> EnterDeferred, faults |-> EnterFaults]

NextEnter ==
  \/ NewRoot(1)
  \/ \E loc \in GoLocations : Push(loc)
  \/ \E loc \in GoLocations : PushNow(loc)
  \/ Cancel
  \/ \E how \in {"defer", "next"}, to \in {Proceed, False, WithCallback} : Invoke(how, to)
  \/ \E k \in 1..EnterDeferred, to \in {Proceed, WithCallback} : Answer(k, to)
  \/ RunResolver
  \/ CallFactory("resolve")
  \/ Commit("none")
  \/ Render
  \/ Tick
  \/ \E r \in {"Y"} : BeginDestroy(r)
  \/ \E r \in {"Y"} : EndDestroy(r)

SpecEnter == InitEnter /\ [][NextEnter]_vars

\* --------------------------------------------- runs in a browser window
\* the most navigations, deferred answers and failures of a run
WindowNavs == 3

WindowDeferred == 1

WindowFaults == 1

\* handleRoutingEvent, the handler of popstate that setupListeners adds: the
\* user has gone back or forward to the entry at loc, the address is loc
\* already, and the handler calls transitionTo(getHash(), route => { ... })
PopState(loc) ==
  /\ Idle /\ CanStart /\ listeners # <<>>
  /\ Becomes(settle(transitionTo([Forget(State) EXCEPT !.address = loc],
                                 loc, "pop", NoAdapter)))

InitWindow ==
  /\ BootInWindow
  /\ NoMatcher
  /\ NoHooks
  /\ limit = [navs |-> WindowNavs, deferred |-> WindowDeferred, faults |-> WindowFaults]

NextWindow ==
  \/ NewRoot(1)
  \/ \E loc \in GoLocations : PopState(loc)
  \/ \E loc \in GoLocations : Push(loc)
  \/ Cancel
  \/ \E how \in {"defer", "next", "throw"}, to \in {Proceed, False, AnError} : Invoke(how, to)
  \/ \E k \in 1..WindowDeferred, to \in {Proceed, False} : Answer(k, to)
  \/ RunResolver
  \/ CallFactory("resolve")
  \/ Commit("none")
  \/ Render

SpecWindow == InitWindow /\ [][NextWindow]_vars

\* ------------------------- runs that create and destroy roots in a window
RootNavs == 3

RootDeferred == 1

\* new Vue({ router }) while the run may have another navigation
OpenRoot(a) ==
  /\ CanStart
  /\ NewRoot(a)

InitRoots ==
  /\ BootInWindow
  /\ NoMatcher
  /\ NoHooks
  /\ limit = [navs |-> RootNavs, deferred |-> RootDeferred, faults |-> 0]

NextRoots ==
  \/ \E a \in 1..MaxApps : OpenRoot(a)
  \/ \E a \in 1..MaxApps : DestroyRoot(a)
  \/ \E loc \in GoLocations : Push(loc)
  \/ Cancel
  \/ \E how \in {"defer", "next"} : Invoke(how, Proceed)
  \/ \E k \in 1..RootDeferred : Answer(k, Proceed)
  \/ RunResolver
  \/ CallFactory("resolve")
  \/ Commit("none")
  \/ Render

SpecRoots == InitRoots /\ [][NextRoots]_vars

\* ------------------------------------------------------- the query codec
\* a string is the sequence of its characters
RECURSIVE Join(_, _)
\* parts.join(sep)
Join(parts, sep) ==
  IF parts = <<>> THEN <<>>
  ELSE IF Len(parts) = 1 THEN parts[1]
  ELSE parts[1] \o sep \o Join(Tail(parts), sep)

RECURSIVE splitFrom(_, _, _, _, _)
splitFrom(str, sep, i, piece, pieces) ==
  IF i > Len(str) THEN Append(pieces, piece)
  ELSE IF str[i] = sep THEN splitFrom(str, sep, i + 1, <<>>, Append(pieces, piece))
  ELSE splitFrom(str, sep, i + 1, Append(piece, str[i]), pieces)

\* str.split(sep)
split(str, sep) == splitFrom(str, sep, 1, <<>>, <<>>)

\* the characters encodeURIComponent keeps, of those that occur here
Unreserved ==
  {"a", "b", "c", "x", "y", "0", "1", "2", "3", "5", "6", "B", "C", "D", "F"}

\* the two hexadecimal digits of the characters that are escaped
HexOf ==
  [c \in {"=", "&", "+", " ", "%", "!", "?", "#"} |->
     CASE c = "=" -> <<"3", "D">>
       [] c = "&" -> <<"2", "6">>
       [] c = "+" -> <<"2", "B">>
       [] c = " " -> <<"2", "0">>
       [] c = "%" -> <<"2", "5">>
       [] c = "!" -> <<"2", "1">>
       [] c = "?" -> <<"3", "F">>
       [] c = "#" -> <<"2", "3">>]

RECURSIVE encodePlain(_)
\* an encode that escapes nothing
encodePlain(str) == IF str = <<>> THEN <<>> ELSE <<str[1]>> \o encodePlain(Tail(str))

RECURSIVE encode(_)
\* encodeURIComponent(str), then !'()* escaped and %2C turned back to a comma
encode(str) ==
  IF str = <<>> THEN <<>>
  ELSE (IF str[1] \in Unreserved \cup {","} THEN <<str[1]>>
        ELSE <<"%">> \o HexOf[str[1]]) \o encode(Tail(str))

\* the character that %xy stands for, as a string of one character, or <<>>
Unescaped(x, y) ==
  IF <<x, y>> = <<"2", "C">> THEN <<",">>
  ELSE IF \E c \in DOMAIN HexOf : HexOf[c] = <<x, y>>
  THEN <<CHOOSE c \in DOMAIN HexOf : HexOf[c] = <<x, y>>>>
  ELSE <<>>

RECURSIVE wellFormed(_)
\* decodeURIComponent(str) does not throw
wellFormed(str) ==
  IF str = <<>> THEN TRUE
  ELSE IF str[1] # "%" THEN wellFormed(Tail(str))
  ELSE /\ Len(str) >= 3
       /\ Unescaped(str[2], str[3]) # <<>>
       /\ wellFormed(SubSeq(str, 4, Len(str)))

RECURSIVE decodeURIComponent(_)
decodeURIComponent(str) ==
  IF str = <<>> THEN <<>>
  ELSE IF str[1] # "%" THEN <<str[1]>> \o decodeURIComponent(Tail(str))
  ELSE Unescaped(str[2], str[3]) \o decodeURIComponent(SubSeq(str, 4, Len(str)))

\* decode(str): the string as it is when decodeURIComponent throws
decode(str) == IF wellFormed(str) THEN decodeURIComponent(str) ELSE str

\* the values of a query object; an array holds strings and nulls
Str(s) == [kind |-> "string", s |-> s, items |-> <<>>]

Null == [kind |-> "null", s |-> <<>>, items |-> <<>>]

Undefined == [kind |-> "undefined", s |-> <<>>, items |-> <<>>]

Arr(items) == [kind |-> "array", s |-> <<>>, items |-> items]

\* a query object: its keys in the order of Object.keys, each with its value
Entry(key, val) == [key |-> key, val |-> val]

\* res[key] = val, and res[key] === undefined before
Keys(obj) == {obj[i].key : i \in DOMAIN obj}

IndexOfKey(obj, key) == CHOOSE i \in DOMAIN obj : obj[i].key = key

RECURSIVE trimStart(_)
trimStart(str) ==
  IF str # <<>> /\ str[1] = " " THEN trimStart(Tail(str)) ELSE str

\* query.trim()
trim(str) == Reverse(trimStart(Reverse(trimStart(str))))

\* param.replace(/\+/g, ' ')
plusToSpace(str) == AsSeq([i \in 1..Len(str) |-> IF str[i] = "+" THEN " " ELSE str[i]])

\* the body of parseQuery's forEach
parseParam(res, param) ==
  LET parts == split(plusToSpace(param), "=")
      key == decode(parts[1])
      val == IF Len(parts) > 1 THEN Str(decode(Join(Tail(parts), <<"=">>))) ELSE Null
  IN IF key \notin Keys(res) THEN Append(res, Entry(key, val))
     ELSE LET i == IndexOfKey(res, key)
          IN IF res[i].val.kind = "array"
             THEN [res EXCEPT ![i].val = Arr(Append(res[i].val.items, val))]
             ELSE [res EXCEPT ![i].val = Arr(<<res[i].val, val>>)]

RECURSIVE parseParams(_, _, _)
parseParams(res, params, i) ==
  IF i > Len(params) THEN res
  ELSE parseParams(parseParam(res, params[i]), params, i + 1)

\* parseQuery(query)
parseQuery(query) ==
  LET trimmed == trim(query)
      text == IF trimmed # <<>> /\ trimmed[1] \in {"?", "#", "&"} THEN Tail(trimmed)
              ELSE trimmed
  IN IF text = <<>> THEN <<>> ELSE parseParams(<<>>, split(text, "&"), 1)

RECURSIVE stringifyItems(_, _, _)
\* val.forEach(val2 => ...) of stringifyQuery
stringifyItems(key, items, i) ==
  IF i > Len(items) THEN <<>>
  ELSE (IF items[i].kind = "undefined" THEN <<>>
        ELSE IF items[i].kind = "null" THEN <<encode(key)>>
        ELSE <<encode(key) \o <<"=">> \o encode(items[i].s)>>)
       \o stringifyItems(key, items, i + 1)

\* the text of one key of stringifyQuery
stringifyEntry(entry) ==
  CASE entry.val.kind = "undefined" -> <<>>
    [] entry.val.kind = "null" -> encode(entry.key)
    [] entry.val.kind = "array" -> Join(stringifyItems(entry.key, entry.val.items, 1), <<"&">>)
    [] OTHER -> encode(entry.key) \o <<"=">> \o encode(entry.val.s)

\* array.filter(x => x.length > 0)
nonEmpty(texts) == SelectSeq(texts, LAMBDA x : Len(x) > 0)

\* stringifyQuery(obj)
stringifyQuery(obj) ==
  LET res == Join(nonEmpty(AsSeq([i \in 1..Len(obj) |-> stringifyEntry(obj[i])])), <<"&">>)
  IN IF res # <<>> THEN <<"?">> \o res ELSE <<>>

\* ------------------------------------------------ runs of the query codec
\* the keys and the strings of the query objects
QueryKeys == {<<"a">>, <<"b", "=">>, <<>>}

QueryStrings == {<<>>, <<"1">>, <<"2">>, <<"x", " ", "y">>, <<"1", ",", "2">>,
                 <<"a", "=", "b", "&", "c">>, <<"+", "!">>, <<"%", "2", "6">>}

\* the most items of an array
MaxItems == 3

QueryItems == {Str(<<"1">>), Str(<<"2">>), Null}

QueryValues ==
  {Str(s) : s \in QueryStrings} \cup {Null, Undefined}
    \cup UNION {{Arr(items) : items \in [1..n -> QueryItems]} : n \in 0..MaxItems}

\* the query objects with one key and with two
QueryObjects ==
  {<<Entry(k, v)>> : k \in QueryKeys, v \in QueryValues}
    \cup {<<Entry(<<"a">>, v), Entry(k, w)>> :
            k \in QueryKeys \ {<<"a">>}, v \in QueryValues,
            w \in {Str(<<"1">>), Null, Undefined, Arr(<<Null, Str(<<"2">>)>>)}}

\* the query strings of a URL
QueryTexts ==
  {<<"a", "=", "1", "&", "a", "=", "2", "&", "b">>,
   <<"?", "a", "=", "1", "&", "a", "=", "2", "&", "b">>,
   <<" ", "a", "+", "b", "=", "%", "2", "1", " ">>,
   <<"a", "=", "%", "x">>,
   <<"a", "&", "&", "b", "=">>,
   <<>>}

InitQuery ==
  /\ Boot
  /\ NoMatcher
  /\ NoHooks
  /\ limit = [navs |-> 0, deferred |-> 0, faults |-> 0]

\* stringifyQuery(obj), and parseQuery of what it returned
StringifyQuery(obj) ==
  /\ Asking
  /\ asked' = Append(asked, [given |-> "object", text |-> <<>>, obj |-> obj])
  /\ answer' = Append(answer, [text |-> stringifyQuery(obj),
                               parsed |-> parseQuery(stringifyQuery(obj))])
  /\ UNCHANGED table
  /\ UNCHANGED engineVars
  /\ UNCHANGED hookVars

\* stringifyQuery(parseQuery(text)), and parseQuery of what it returned
ParseQuery(text) ==
  /\ Asking
  /\ asked' = Append(asked, [given |-> "text", text |-> text, obj |-> parseQuery(text)])
  /\ answer' = Append(answer, [text |-> stringifyQuery(parseQuery(text)),
                               parsed |-> parseQuery(stringifyQuery(parseQuery(text)))])
  /\ UNCHANGED table
  /\ UNCHANGED engineVars
  /\ UNCHANGED hookVars

NextQuery ==
  \/ \E obj \in QueryObjects : StringifyQuery(obj)
  \/ \E text \in QueryTexts : ParseQuery(text)

SpecQuery == InitQuery /\ [][NextQuery]_vars

\* ------------------------------------------------------ path resolution
\* stack.pop() of an array that may be empty
pop(pile) == IF pile = <<>> THEN <<>> ELSE SubSeq(pile, 1, Len(pile) - 1)

RECURSIVE resolveSegments(_, _, _)
\* the loop of resolvePath over the segments of the relative path
resolveSegments(pile, segments, i) ==
  IF i > Len(segments) THEN pile
  ELSE IF segments[i] = <<".", ".">> THEN resolveSegments(pop(pile), segments, i + 1)
  ELSE IF segments[i] # <<".">> THEN resolveSegments(Append(pile, segments[i]), segments, i + 1)
  ELSE resolveSegments(pile, segments, i + 1)

\* resolvePath(relative, base, append) of util/path.js
resolvePath(relative, base, append) ==
  IF relative # <<>> /\ relative[1] = "/" THEN relative
  ELSE IF relative # <<>> /\ relative[1] \in {"?", "#"} THEN base \o relative
  ELSE LET whole == split(base, "/")
           pile == IF ~append \/ whole[Len(whole)] = <<>> THEN pop(whole) ELSE whole
           walked == resolveSegments(pile, split(relative, "/"), 1)
       IN Join(IF walked = <<>> \/ walked[1] # <<>> THEN <<<<>>>> \o walked ELSE walked,
               <<"/">>)

\* ------------------------------------------- runs of the path resolution
RelativePaths ==
  {<<".", ".", "/", "s", "i", "b", "l", "i", "n", "g">>,
   <<".", ".">>, <<".">>, <<>>, <<"x">>, <<"x", "/">>, <<".", "/", "x">>,
   <<".", ".", "/", ".", ".", "/", ".", ".", "/", ".", ".", "/", "x">>,
   <<"x", "/", ".", ".", "/", "y">>, <<"/", "x", "/", "y">>, <<"/">>,
   <<"?", "q">>, <<"#", "h">>}

BasePaths ==
  {<<"/", "a", "/", "b", "/", "c">>, <<"/", "a", "/", "b", "/">>, <<"/", "a">>,
   <<"/", "a", "/">>, <<"/">>}

InitPath ==
  /\ Boot
  /\ NoMatcher
  /\ NoHooks
  /\ limit = [navs |-> 0, deferred |-> 0, faults |-> 0]

\* resolvePath(relative, base, append)
ResolvePath(relative, base, append) ==
  /\ Asking
  /\ asked' = Append(asked, [relative |-> relative, base |-> base, append |-> append])
  /\ answer' = Append(answer, resolvePath(relative, base, append))
  /\ UNCHANGED table
  /\ UNCHANGED engineVars
  /\ UNCHANGED hookVars

NextPath ==
  \E relative \in RelativePaths, base \in BasePaths, append \in BOOLEAN :
    ResolvePath(relative, base, append)

SpecPath == InitPath /\ [][NextPath]_vars

\* ------------------------------------------------- runs of resolveQueue
\* the most records in a chain of matched records
MaxChain == 3

\* the records the chains are made of
ChainRecords == {"P", "X", "Y", "T"}

\* chains of matched records: arrays of different record objects
Chains ==
  {c \in UNION {[1..n -> ChainRecords] : n \in 0..MaxChain} :
     \A i, j \in DOMAIN c : i # j => c[i] # c[j]}

InitChains ==
  /\ Boot
  /\ NoMatcher
  /\ NoHooks
  /\ limit = [navs |-> 0, deferred |-> 0, faults |-> 0]

\* resolveQueue(this.current.matched, route.matched)
ResolveQueue(cur, next) ==
  /\ Asking
  /\ asked' = Append(asked, [cur |-> cur, next |-> next])
  /\ answer' = Append(answer, resolveQueue(cur, next))
  /\ UNCHANGED table
  /\ UNCHANGED engineVars
  /\ UNCHANGED hookVars

NextChains == \E cur \in Chains, next \in Chains : ResolveQueue(cur, next)

SpecChains == InitChains /\ [][NextChains]_vars


\* ---------------------------------------------------------- properties
\* the events of a trace that are invocations of a guard of the queue
GuardEvents ==
  {"beforeRouteLeave", "beforeEach", "beforeRouteUpdate", "beforeEnter",
   "resolveAsyncComponents", "beforeRouteEnter", "beforeResolve"}

\* the events of a trace that are calls of the navigation's onAbort
FailureEvents == NavigationFailureType \cup {"Error", "Thrown", "TypeError"}

\* how often the navigation's onComplete / onAbort has been called
Completions(tr) == Cardinality({i \in DOMAIN tr : tr[i] = "updateRoute"})

Aborts(tr) == Cardinality({i \in DOMAIN tr : tr[i] \in FailureEvents})

\* C1: once a navigation has been superseded (pending stopped being its
\* route), no further guard of it is invoked and it never commits; whenever
\* the runner is at a queue step of it, that step cancels it.
C1_SupersededStops ==
  /\ \A n \in DOMAIN navs : \A i, j \in DOMAIN navs[n].trace :
       (i < j /\ navs[n].trace[i] = "superseded")
         => navs[n].trace[j] \notin GuardEvents \cup {"factory", "updateRoute", "onComplete"}
  /\ AtStep /\ Has(navs[Top(State).nav].trace, "superseded") => Stale

\* C2: of navigations that overlap only the most recently started one can
\* commit: when a navigation commits, no navigation has been started after it.
C2_OnlyLatestCommits ==
  \A n \in DOMAIN navs : Has(navs[n].trace, "updateRoute") => n = Len(navs)

\* C3: one confirmTransition call has at most one terminal outcome: its
\* onComplete and onAbort are called at most once together.
C3_SingleOutcome ==
  \A n \in DOMAIN navs : Completions(navs[n].trace) + Aborts(navs[n].trace) <= 1

\* the place of an event in the order of the phases (0: not a phase)
PhaseOf(ev) ==
  CASE ev = "beforeRouteLeave" -> 1
    [] ev = "beforeEach" -> 2
    [] ev = "beforeRouteUpdate" -> 3
    [] ev = "beforeEnter" -> 4
    [] ev \in {"resolveAsyncComponents", "factory"} -> 5
    [] ev = "beforeRouteEnter" -> 6
    [] ev = "beforeResolve" -> 7
    [] ev \in {"updateRoute", "onComplete"} -> 8
    [] ev = "afterEach" -> 9
    [] ev = "readyCbs" -> 10
    [] OTHER -> 0

WaitingOf(n) == {k \in DOMAIN waiting : waiting[k].nav = n}

LoadingOf(n) == {k \in DOMAIN loading : loading[k].nav = n}

\* C4: in a navigation that commits the phases come in the order leave,
\* beforeEach, update, beforeEnter, component resolution, beforeRouteEnter,
\* beforeResolve, commit, afterEach, ready callbacks; and the second queue
\* (beforeRouteEnter, beforeResolve) is run only when every activated
\* component is resolved and no guard of the navigation still holds next.
C4_PhaseOrder ==
  /\ \A n \in DOMAIN navs :
       Has(navs[n].trace, "updateRoute") =>
         \A i, j \in DOMAIN navs[n].trace :
           (i < j /\ PhaseOf(navs[n].trace[i]) > 0 /\ PhaseOf(navs[n].trace[j]) > 0)
             => PhaseOf(navs[n].trace[i]) <= PhaseOf(navs[n].trace[j])
  /\ \A k \in DOMAIN callStack :
       (callStack[k].op = "step" /\ callStack[k].stage = 2)
         => /\ ~unresolved(State, navs[callStack[k].nav].activated)
            /\ LoadingOf(callStack[k].nav) = {}
            /\ WaitingOf(callStack[k].nav) = {}

\* a navigation that went through all the phases leave ... afterEach
C4_Witness ==
  \E n \in DOMAIN navs :
    \A ph \in 1..9 : \E i \in DOMAIN navs[n].trace : PhaseOf(navs[n].trace[i]) = ph

\* C5: the guards of one navigation run one at a time.  While a guard holds
\* its next, the runner has no step of that navigation open, no second guard
\* of it is waiting, no factory of it is loading and it has not committed;
\* the runner never stops at an empty queue entry.
C5_OneAtATime ==
  /\ \A n \in DOMAIN navs :
       /\ Cardinality(WaitingOf(n)) <= 1
       /\ WaitingOf(n) # {} =>
            /\ \A k \in DOMAIN callStack : callStack[k].nav # n
            /\ LoadingOf(n) = {}
            /\ ~Has(navs[n].trace, "updateRoute")
  /\ AtGuard => Top(State).queue[Top(State).idx] # NoGuard

\* a guard holds next behind an empty queue entry that was skipped
C5_Witness ==
  \E k \in DOMAIN waiting :
    /\ waiting[k].idx > 1
    /\ waiting[k].queue[waiting[k].idx - 1] = NoGuard

\* C6: after a guard has called next(false) or next(error) (the iterator
\* answers both with ensureURL(true) and then onAbort with the aborted
\* failure or with that error), no guard of the navigation runs and the
\* navigation does not assign current.
C6_AbortStopsQueue ==
  \A n \in DOMAIN navs : \A i \in DOMAIN navs[n].trace :
    navs[n].trace[i] = "ensureURL(true)" =>
      /\ i < Len(navs[n].trace)
      /\ navs[n].trace[i + 1] \in {"aborted", "Error", "Thrown", "TypeError"}
      /\ \A j \in DOMAIN navs[n].trace :
           j > i => navs[n].trace[j] \notin GuardEvents \cup {"updateRoute"}

\* the navigations a guard of navigation n started by redirecting
StartedBy(n) == {m \in DOMAIN navs : navs[m].by = n}

\* C7: a navigation whose guard redirects gets the redirected failure, does
\* not commit, and has started exactly one navigation, to the location the
\* guard gave: by replace if the value has the replace flag, else by push.
C7_RedirectStartsOne ==
  \A n \in DOMAIN navs :
    Has(navs[n].trace, "redirected") =>
      /\ ~Has(navs[n].trace, "updateRoute")
      /\ Cardinality(StartedBy(n)) = 1
      /\ \A m \in StartedBy(n) :
           /\ navs[m].kind = IF navs[n].redirect.replace THEN "replace" ELSE "push"
           /\ navs[m].route.path.segs = navs[n].redirect.loc.segs
           /\ m > n

\* a guard redirected with the replace flag
C7_Witness ==
  \E n \in DOMAIN navs :
    /\ Has(navs[n].trace, "redirected")
    /\ navs[n].redirect.replace
    /\ \E m \in StartedBy(n) : navs[m].kind = "replace"

\* the target is the location that is already current
SameLocation(a, b) == a.path.segs = b.path.segs /\ a.hash = b.hash

\* C8: a navigation to the location that is already current runs no guard,
\* calls ensureURL, ends with the duplicated failure and leaves current the
\* same Route object; no other navigation is duplicated, none from START.
C8_Duplicate ==
  \A n \in DOMAIN navs :
    navs[n].kind # "gone" =>
      IF navs[n].from # START /\ SameLocation(navs[n].route, navs[n].from)
      THEN /\ navs[n].trace \in {<<"ensureURL()", "duplicated">>,
                                 <<"ensureURL()", "duplicated", "superseded">>}
           /\ current.id = navs[n].from.id
      ELSE ~Has(navs[n].trace, "duplicated")

\* a navigation to the current location written with a trailing slash
C8_Witness ==
  \E n \in DOMAIN navs :
    /\ Has(navs[n].trace, "duplicated")
    /\ navs[n].route.path.slash # navs[n].from.path.slash

\* C9: the commit of the first navigation calls every onReady callback
\* registered until then once; no callback is called twice; a callback
\* registered when ready is set is called at once; ready, once set, stays.
C9_FirstCommitFiresReady ==
  /\ (navs # <<>> /\ Has(navs[1].trace, "updateRoute"))
       => \A i \in Range(readyCbs) : fired.ready[i] = 1
  /\ \A i \in DOMAIN fired.ready : fired.ready[i] <= 1 /\ fired.readyErr[i] <= 1
  /\ \A i \in DOMAIN fired.ready : i \notin Range(readyCbs) => fired.ready[i] = 1
  /\ fired.readyBy # "none" => ready

C11_PromiseFollowsOutcome ==
  \A n \in DOMAIN navs :
    navs[n].promise # "none" =>
      /\ navs[n].promise = "resolved" <=> Has(navs[n].trace, "updateRoute")
      /\ navs[n].promise = "rejected" <=> Aborts(navs[n].trace) > 0
      /\ navs[n].promise = "rejected" =>
           /\ navs[n].settledWith \in FailureEvents
           /\ Has(navs[n].trace, navs[n].settledWith)

\* the events a step adds to the trace of navigation n
NewEvents(n) ==
  LET old == IF n \in DOMAIN navs THEN Forget(State).navs[n].trace ELSE <<>>
  IN (Len(old) + 1)..Len(navs'[n].trace)

\* how many error callbacks were called right before event j of a trace
RECURSIVE ToldBefore(_, _)
ToldBefore(tr, j) ==
  IF j > 1 /\ tr[j - 1] = "onError" THEN 1 + ToldBefore(tr, j - 1) ELSE 0

\* C12: whenever a navigation aborts, its onAbort is called; right before it
\* every registered onError callback is called once if the error is not one
\* of the four navigation failures, and none is called if it is one of them.
C12_ErrorCallbacks ==
  [][\A n \in DOMAIN navs' : \A j \in NewEvents(n) :
       /\ navs'[n].trace[j] \in FailureEvents =>
            ToldBefore(navs'[n].trace, j) =
              IF navs'[n].trace[j] \in NavigationFailureType THEN 0 ELSE errorCbs
       /\ navs'[n].trace[j] = "onError" =>
            /\ j < Len(navs'[n].trace)
            /\ navs'[n].trace[j + 1] \in {"onError", "Error", "Thrown", "TypeError"}]_vars

\* two error callbacks were told of an error before onAbort got it
C12_Witness ==
  \E n \in DOMAIN navs : \E i \in DOMAIN navs[n].trace :
    /\ i + 2 <= Len(navs[n].trace)
    /\ navs[n].trace[i] = "onError" /\ navs[n].trace[i + 1] = "onError"
    /\ navs[n].trace[i + 2] \in {"Error", "Thrown", "TypeError"}

\* C13: when match throws inside transitionTo, every registered error
\* callback is called once and the exception leaves transitionTo; no
\* confirmTransition is started: current, pending, ready, the history stack
\* and every navigation's callbacks are left as they were.
C13_MatchThrows ==
  [][fired'.matchThrown # fired.matchThrown =>
       /\ current' = current /\ pending' = pending /\ ready' = ready
       /\ stack' = stack /\ index' = index
       /\ navs' = Forget(State).navs
       /\ callStack' = <<>>
       /\ fired'.error = fired.error + errorCbs
       /\ fired'.uncaught + fired'.rejected = fired.uncaught + fired.rejected + 1]_vars

\* a match threw while error callbacks were registered
C13_Witness == fired.matchThrown > 0 /\ fired.error > 0 /\ current # START

\* ------------------------------------------- properties of the matcher
\* the last record of the chain of a route: <<>> or <<record>>
Leaf(route) ==
  IF route.matched = <<>> THEN <<>> ELSE <<route.matched[Len(route.matched)]>>

\* the location the k-th call of match looked up, after normalization
Asked(k) == normalizeLocation(asked[k].raw, asked[k].currentRoute)

\* the k-th call looked up a path
ByPath(k) == Asked(k).name = "" /\ Asked(k).path # NoPath

\* the places of the priority list whose pattern matches the path
Matching(path) ==
  {i \in DOMAIN table.pathList : regexMatches(table.pathMap[table.pathList[i]].path, path)}

\* the first of them
First(path) == CHOOSE i \in Matching(path) : \A j \in Matching(path) : i <= j

\* a record that is neither a redirect nor an alias
Plain(record) == record.redirect = NoRedirect /\ record.matchAs = NoPattern

\* C14: the wildcard path '*' is after every other path of the priority
\* list, and a lookup by path whose first matching record is neither a redirect
\* nor an alias returns that record: never the wildcard when another pattern
\* matches, whatever the order of registration.
C14_WildcardLast ==
  /\ \A i \in DOMAIN table.pathList :
       table.pathList[i] = Star => i = Len(table.pathList)
  /\ \A k \in DOMAIN asked :
       (ByPath(k) /\ Matching(Asked(k).path) # {}) =>
         LET record == table.pathMap[table.pathList[First(Asked(k).path)]]
         IN /\ Plain(record) => Leaf(answer[k]) = <<record>>
            /\ (\E j \in Matching(Asked(k).path) : table.pathList[j] # Star) =>
                 record.path # Star

\* '*' was registered before '/a', and match('/a') returned the '/a' record
C14_Witness ==
  \E k \in DOMAIN asked :
    /\ ByPath(k) /\ Asked(k).path = Path(TRUE, <<"a">>)
    /\ Star \in DOMAIN table.pathMap
    /\ Leaf(answer[k]) # <<>>
    /\ Leaf(answer[k])[1].path = Static("a")
    /\ table.pathMap[Star].id < Leaf(answer[k])[1].id

\* the record the k-th call found first in the priority list
Found(k) == table.pathMap[table.pathList[First(Asked(k).path)]]

\* the k-th call looked up a path whose first matching record is an alias
ByAlias(k) ==
  /\ ByPath(k)
  /\ Matching(Asked(k).path) # {}
  /\ Found(k).matchAs # NoPattern
  /\ Found(k).matchAs \in DOMAIN table.pathMap

\* the canonical path alias() looks up: matchAs filled with the params of
\* the alias
Canonical(k) == fillParams(Found(k).matchAs, regexParams(Found(k).path, Asked(k).path))

\* C15 as stated: matching an alias A of the route at P returns a Route
\* whose chain ends in the record registered for P, with the path, query and
\* hash of the alias location.
C15_AliasLeafIsCanonical ==
  \A k \in DOMAIN asked :
    ByAlias(k) =>
      /\ Leaf(answer[k]) = <<table.pathMap[Found(k).matchAs]>>
      /\ answer[k].path = Asked(k).path
      /\ answer[k].query = Asked(k).query
      /\ answer[k].hash = Asked(k).hash

\* C15: matching an alias A of the route at P returns a Route with the path,
\* query and hash of the alias location, whose chain never ends in the alias
\* record: it ends in the record that the priority list gives for P filled
\* with the alias's params, which is the record of P unless an earlier
\* pattern matches that path too, and the params are those of that match.
C15_AliasResolves ==
  \A k \in DOMAIN asked :
    ByAlias(k) =>
      /\ answer[k].path = Asked(k).path
      /\ answer[k].query = Asked(k).query
      /\ answer[k].hash = Asked(k).hash
      /\ Leaf(answer[k]) # <<Found(k)>>
      /\ Matching(Canonical(k)) # {} =>
           LET target == table.pathMap[table.pathList[First(Canonical(k))]]
           IN Plain(target) =>
                /\ Leaf(answer[k]) = <<target>>
                /\ answer[k].params = regexParams(target.path, Canonical(k))

\* match('/b?q=1#h') returned the record of '/a' with the path '/b'
C15_Witness ==
  \E k \in DOMAIN asked :
    /\ ByAlias(k)
    /\ Asked(k).query = "q=1"
    /\ answer[k].path = Path(TRUE, <<"b">>)
    /\ Leaf(answer[k]) = <<table.pathMap[Static("a")]>>

\* addRoute('a', { path: 'c', name: 'c' }) has added the child to the route
\* named 'a', whose alias is '/b'
ChildAdded ==
  /\ "a" \in DOMAIN table.nameMap
  /\ "c" \in DOMAIN table.nameMap
  /\ table.nameMap["c"].parent = <<table.nameMap["a"]>>

\* C16: after addRoute(parentName, child) for a parent with an alias,
\* matching the child under the alias returns the same leaf record and a
\* chain of the same length as matching it under the parent's own path.
C16_ChildUnderAlias ==
  \A k \in DOMAIN asked :
    (ChildAdded /\ ByPath(k) /\ Asked(k).path = Path(TRUE, <<"b", "c">>)) =>
      LET direct == matcherMatch(table, RawPath(<<"a", "c">>, Asked(k).query, Asked(k).hash),
                                 <<>>, <<>>)
      IN /\ Leaf(answer[k]) # <<>>
         /\ Leaf(answer[k]) = Leaf(direct)
         /\ Len(answer[k].matched) = Len(direct.matched)

\* the k-th call looked up a path whose first matching record redirects
ByRedirect(k) ==
  /\ ByPath(k)
  /\ Matching(Asked(k).path) # {}
  /\ Found(k).redirect # NoRedirect

\* the location the record found by the k-th call redirects to, with the
\* query, hash and params of the location asked about
Target(k) ==
  LET params == regexParams(Found(k).path, Asked(k).path)
  IN IF Found(k).redirect.name # ""
     THEN Location(Found(k).redirect.name, NoPath, Asked(k).query, Asked(k).hash,
                   params, TRUE, FALSE)
     ELSE Location("", fillParams(Found(k).redirect.path, params), Asked(k).query,
                   Asked(k).hash, NoParams, FALSE, FALSE)

\* C17: matching a location whose record redirects to an existing target
\* returns the path, params, chain, query and hash that matching the target
\* directly returns, and redirectedFrom is the full path of the location asked
\* about, also when the target redirects again.
C17_RedirectEqualsTarget ==
  \A k \in DOMAIN asked :
    ByRedirect(k) =>
      LET direct == matcherMatch(table, Target(k), <<>>, <<>>)
      IN direct.matched # <<>> =>
           /\ answer[k].path = direct.path
           /\ answer[k].params = direct.params
           /\ answer[k].matched = direct.matched
           /\ answer[k].query = Asked(k).query
           /\ answer[k].hash = Asked(k).hash
           /\ answer[k].redirectedFrom = getFullPath(Asked(k))

\* the k-th call looked up a name that the table knows
ByName(k) == asked[k].raw.name # "" /\ asked[k].raw.name \in DOMAIN table.nameMap

\* the parameters of a pattern that a path must give
NotOptional(pattern) ==
  {key \in ParamNames :
     \E i \in DOMAIN pattern.segs :
       pattern.segs[i].kind = "param" /\ pattern.segs[i].text = key}

\* C18: in a lookup by name a param of the current route is copied into the
\* params exactly when the pattern of the target requires it and the location
\* does not supply it; supplied params are kept, other params are not
\* inherited, and the path is the pattern filled with these params.
C18_ParamInheritance ==
  \A k \in DOMAIN asked :
    ByName(k) =>
      LET record == table.nameMap[asked[k].raw.name]
          supplied == asked[k].raw.params
          from == asked[k].currentRoute
      IN Plain(record) =>
           /\ \A key \in ParamNames :
                answer[k].params[key] =
                  IF supplied[key] # Absent THEN supplied[key]
                  ELSE IF from # <<>> /\ key \in NotOptional(record.path)
                       THEN from[1].params[key]
                       ELSE Absent
           /\ LET filled == fillParams(record.path, answer[k].params)
              IN answer[k].path = IF filled = NoPath THEN Path(TRUE, <<>>) ELSE filled
           /\ Leaf(answer[k]) = <<record>>

\* with the current route '/u/5/info', { name: 'user' } resolved to '/u/5':
\* id was inherited, the optional tab was not
C18_Witness ==
  \E k \in DOMAIN asked :
    /\ ByName(k)
    /\ asked[k].raw = RawName("user", NoParams, FALSE)
    /\ asked[k].currentRoute # <<>>
    /\ asked[k].currentRoute[1].params = Params(<<"5">>, <<"info">>)
    /\ answer[k].path = Path(TRUE, <<"u", "5">>)

\* the k-th call asked about a name the table does not know, about a path
\* no pattern matches, or about a location that after normalization has
\* neither name nor path
NothingToFind(k) ==
  \/ Asked(k).name # "" /\ Asked(k).name \notin DOMAIN table.nameMap
  \/ Asked(k).name = "" /\ Asked(k).path # NoPath /\ Matching(Asked(k).path) = {}
  \/ Asked(k).name = "" /\ Asked(k).path = NoPath

\* C19 as stated: an unknown name, a path no pattern matches, or a location
\* written with neither name nor path all return a Route with an empty chain.
C19_NoMatchIsEmpty ==
  \A k \in DOMAIN asked :
    (\/ asked[k].raw.name # "" /\ asked[k].raw.name \notin DOMAIN table.nameMap
     \/ asked[k].raw.name = "" /\ asked[k].raw.path # NoPath
          /\ Matching(asked[k].raw.path) = {}
     \/ asked[k].raw.name = "" /\ asked[k].raw.path = NoPath)
      => answer[k].matched = <<>>

\* C19: match returns a Route with an empty chain, and no redirectedFrom,
\* for a name the table does not know, for a path that no pattern of the
\* priority list matches, and for a location that has neither name nor path
\* once normalized; a raw location without name and path is normalized to the
\* current route (its path, or '/' without one) and matched as such.
C19_NothingFoundIsEmpty ==
  \A k \in DOMAIN asked :
    /\ NothingToFind(k) =>
         /\ answer[k].matched = <<>>
         /\ answer[k].redirectedFrom = NoFullPath
    /\ (asked[k].raw.name = "" /\ asked[k].raw.path = NoPath
          /\ ~asked[k].raw._normalized /\ ~asked[k].raw.withParams) =>
         /\ Asked(k).path = IF asked[k].currentRoute # <<>>
                            THEN asked[k].currentRoute[1].path ELSE Path(TRUE, <<>>)
         /\ answer[k].matched =
              matcherMatch(table, RawPath(Asked(k).path.segs, "", ""), <<>>, <<>>).matched

\* match was asked about a path that no pattern matches and returned a
\* Route with an empty chain
C19_Witness ==
  \E k \in DOMAIN asked :
    /\ Asked(k).name = "" /\ Asked(k).path = Path(TRUE, <<"zzz">>)
    /\ Matching(Asked(k).path) = {}
    /\ answer[k].matched = <<>>

\* ---------------------------------------------- properties of the hooks
\* the registrations of a list whose unregister function was not called
RECURSIVE Kept(_, _)
Kept(list, u) ==
  IF u > Len(issued) THEN <<>>
  ELSE IF issued[u].list = list /\ u \notin removed
       THEN <<issued[u].fn>> \o Kept(list, u + 1)
       ELSE Kept(list, u + 1)

\* C20: calling an unregister function removes exactly the registration it
\* was returned for: each list of hooks, which is what navigations started
\* afterwards run, holds the hook of Boot and then, in the order of their
\* registration, the hooks whose unregister function has not been called,
\* also when a function is registered twice or an unregister function is
\* called again.
C20_UnregisterExact ==
  /\ beforeHooks = <<"beforeEach">> \o Kept("beforeHooks", 1)
  /\ resolveHooks = <<"beforeResolve">> \o Kept("resolveHooks", 1)
  /\ afterHooks = <<"afterEach">> \o Kept("afterHooks", 1)

\* --------------------------------- properties of adding routes at run time
\* the step is a call of router.addRoute or router.addRoutes
AddStep == table' # table

\* the location of a route: its path and hash
FullPath(route) == [path |-> route.path, hash |-> route.hash]

\* C21: a call of addRoute or addRoutes starts exactly one navigation, to
\* the location of the current route, when current is not START, and none
\* when it is.
C21_AddReResolves ==
  [][AddStep =>
       IF current = START THEN Len(navs') = Len(navs)
       ELSE /\ Len(navs') = Len(navs) + 1
            /\ FullPath(navs'[Len(navs')].route) = FullPath(current)]_vars

\* the step is a call of router.resolve
ResolveStep == Len(asked') > Len(asked)

C23_StartOnlyEqualsItself ==
  \A k \in DOMAIN answer :
    /\ ~sameRoute(RouteRef(FALSE, answer[k]), RouteRef(TRUE, StartRoute), FALSE)
    /\ ~sameRoute(RouteRef(TRUE, StartRoute), RouteRef(FALSE, answer[k]), FALSE)

\* ------------------------------------------ properties of the query codec
\* the object without the keys whose value is undefined
withoutUndefined(obj) == SelectSeq(obj, LAMBDA e : e.val.kind # "undefined")

Wired(val) ==
  IF val.kind = "array" /\ Len(val.items) = 1 THEN val.items[1]
  ELSE IF val.kind = "array" /\ Len(val.items) = 0 THEN Undefined
  ELSE val

WiredObject(obj) ==
  withoutUndefined(AsSeq([i \in 1..Len(obj) |-> Entry(obj[i].key, Wired(obj[i].val))]))

Segments(path) == SelectSeq(split(path, "/"), LAMBDA piece : piece # <<>>)

RECURSIVE Walk(_, _, _)
\* one segment popped for each '..' and never above the root, '.' ignored,
\* every other segment appended
Walk(dir, segments, i) ==
  IF i > Len(segments) THEN dir
  ELSE IF segments[i] = <<".", ".">> THEN Walk(pop(dir), segments, i + 1)
  ELSE IF segments[i] = <<".">> THEN Walk(dir, segments, i + 1)
  ELSE Walk(Append(dir, segments[i]), segments, i + 1)

\* the directory a relative path is resolved in
Directory(base, append) ==
  IF append \/ base[Len(base)] = "/" THEN Segments(base) ELSE pop(Segments(base))

\* C25: resolvePath returns an absolute relative path unchanged; otherwise
\* the result begins with '/' and is the base without its last segment
\* (with it when append is set or the base ends in '/') walked along the
\* segments of the relative path; '../sibling' against '/a/b/c' without
\* append is '/a/sibling'.
C25_ResolvePath ==
  \A k \in DOMAIN asked :
    /\ IF asked[k].relative # <<>> /\ asked[k].relative[1] = "/"
       THEN answer[k] = asked[k].relative
       ELSE /\ answer[k] # <<>>
            /\ answer[k][1] = "/"
            /\ answer[k] = <<"/">> \o Join(Walk(Directory(asked[k].base, asked[k].append),
                                              split(asked[k].relative, "/"), 1), <<"/">>)
    /\ /\ asked[k].relative = <<".", ".", "/", "s", "i", "b", "l", "i", "n", "g">>
       /\ asked[k].base = <<"/", "a", "/", "b", "/", "c">>
       /\ ~asked[k].append
       => answer[k] = <<"/", "a", "/", "s", "i", "b", "l", "i", "n", "g">>

\* ------------------------------------------ properties of stale guards
\* the step is the answer of the guard waiting[k], held by a navigation
\* whose route is no longer the pending one
StaleAnswer(k) ==
  /\ callStack = <<>>
  /\ waiting' = RemoveAt(waiting, k)
  /\ pending # navs[waiting[k].nav].route

\* C28: when a guard of a superseded navigation answers (next(),
\* next(false), next(Error) or next(target)), no navigation is started for
\* it, pending stays what the newer navigation made it, and the stack and
\* index of the adapter stay as they are.
C28_StaleGuardMutatesNothing ==
  [][\A k \in DOMAIN waiting :
       StaleAnswer(k) =>
         /\ Len(navs') = Len(navs)
         /\ pending' = pending
         /\ stack' = stack
         /\ index' = index]_vars

\* ------------------------------------------------ properties of the roots
\* the step tears the history down: the last root is destroyed
TeardownStep == app # 0 /\ app' = 0

\* the events of a navigation after it was noted as in flight at a teardown
AfterTeardown(nav) ==
  LET at == CHOOSE i \in DOMAIN nav.trace : nav.trace[i] = "teardown"
  IN SubSeq(nav.trace, at + 1, Len(nav.trace))

\* a navigation that was in flight at a teardown does not commit, and ends in
\* no other way than cancelled
EndsCancelled ==
  \A n \in DOMAIN navs :
    Has(navs[n].trace, "teardown") =>
      \A i \in DOMAIN AfterTeardown(navs[n]) :
        AfterTeardown(navs[n])[i] \notin {"updateRoute", "aborted", "redirected", "Error", "Thrown"}

\* C26: a teardown leaves current START, pending null and no listener, and
\* a navigation in flight at a teardown ends as cancelled and never assigns
\* current.
C26_Teardown ==
  [][/\ TeardownStep => current' = START /\ pending' = NoRoute /\ listeners' = <<>>
     /\ EndsCancelled']_vars

C29_ResolverCallsNextOnce ==
  \A n \in DOMAIN navs : navs[n].nexts <= 1

\* -------------------------- properties of the beforeRouteEnter callbacks
\* no callback has been called twice, each call had a registered instance
\* that was not being destroyed, and the callback was out of the record's
\* list when it ran
EnteredOnceAndLive ==
  /\ \A i, j \in DOMAIN entered : i # j => entered[i].cb # entered[j].cb
  /\ \A i \in DOMAIN entered : entered[i].live /\ ~entered[i].queued

\* the callbacks that leave the list of record r in the step
Leaving(r) == Range(enteredCbs[r]) \ Range(enteredCbs'[r])

\* C30: a callback handed to next by a beforeRouteEnter guard is called at
\* most once, with a registered instance that is not being destroyed, after
\* it has been taken from the record's list; and it stays in the list as long
\* as the record has no instance.
C30_EnteredCallbacks ==
  [][/\ EnteredOnceAndLive'
     /\ \A r \in Records : Leaving(r) # {} => r \in instances \/ r \in instances']_vars

\* one callback has been called, and another one waits for the instance of
\* its record
C30_Witness ==
  /\ entered # <<>>
  /\ enteredCbs["Y"] # <<>>
  /\ "Y" \notin instances

\* ------------------------------------------------ properties of resolveQueue
\* the number of leading positions at which both chains hold the same record
Common(cur, next) ==
  CHOOSE i \in 0..Len(cur) :
    /\ i <= Len(next)
    /\ \A j \in 1..i : cur[j] = next[j]
    /\ ~(i < Len(cur) /\ i < Len(next) /\ cur[i + 1] = next[i + 1])

\* C31: resolveQueue splits both chains at the first position where they
\* hold different records: updated is next before it, activated is next from
\* it on and deactivated is current from it on; so updated followed by
\* activated is next, updated followed by deactivated is current, and for
\* identical chains activated and deactivated are empty.
C31_ResolveQueueSplits ==
  \A k \in DOMAIN asked :
    LET cur == asked[k].cur
        next == asked[k].next
        i == Common(cur, next)
    IN /\ answer[k].updated = SubSeq(next, 1, i)
       /\ answer[k].activated = SubSeq(next, i + 1, Len(next))
       /\ answer[k].deactivated = SubSeq(cur, i + 1, Len(cur))
       /\ answer[k].updated \o answer[k].activated = next
       /\ answer[k].updated \o answer[k].deactivated = cur
       /\ cur = next => answer[k].activated = <<>> /\ answer[k].deactivated = <<>>

\* two chains with the same parent and different children have been split
C31_Witness ==
  /\ asked # <<>>
  /\ asked[1].cur = <<"P", "X">>
  /\ asked[1].next = <<"P", "Y">>
  /\ answer[1].updated = <<"P">>
  /\ answer[1].activated = <<"Y">>
  /\ answer[1].deactivated = <<"X">>

\* ------------------------------------- properties of the order of guards
\* how deep a record is in its chain
Depth(r) == Len(formatMatch(r))

\* the functions of the hooks of one kind that navigation n has called
RanHooks(n, type) ==
  LET called == SelectSeq(navs[n].ran, LAMBDA g : g.type = type)
  IN AsSeq([i \in DOMAIN called |-> called[i].fn])

IsPrefix(a, b) == Len(a) <= Len(b) /\ a = SubSeq(b, 1, Len(a))

\* guards of records: the leave guards from the innermost record outwards,
\* the others from the outermost record inwards
RecordGuardsInOrder ==
  \A n \in DOMAIN navs : \A i, j \in DOMAIN navs[n].ran :
    LET a == navs[n].ran[i]
        b == navs[n].ran[j]
    IN i < j /\ a.type = b.type /\ a.rec # NoRecord =>
         IF a.type = "beforeRouteLeave" THEN Depth(a.rec) > Depth(b.rec)
         ELSE Depth(a.rec) < Depth(b.rec)

\* the hooks of a list that are registered, in the order of registration
Registered(list, first) == <<first>> \o Kept(list, 1)

\* C32: within a phase the leave guards run from the innermost deactivated
\* record outwards, the update, beforeEnter and beforeRouteEnter guards from
\* the outermost record inwards, and the global beforeEach, beforeResolve and
\* afterEach hooks in the order in which they were registered.
C32_OrderInPhase ==
  /\ RecordGuardsInOrder
  /\ \A n \in DOMAIN navs :
       /\ IsPrefix(RanHooks(n, "beforeEach"), Registered("beforeHooks", "beforeEach"))
       /\ IsPrefix(RanHooks(n, "beforeResolve"), Registered("resolveHooks", "beforeResolve"))
       /\ IsPrefix(RanHooks(n, "afterEach"), Registered("afterHooks", "afterEach"))

\* ------------------------------------------ properties of the address
\* no navigation is in flight: no task runs, no guard and no factory holds a
\* callback
NothingInFlight == callStack = <<>> /\ waiting = <<>> /\ loading = <<>>

\* C33: in a window, when a navigation that a back or forward notification
\* started has ended, committed or aborted in any way, and no navigation is
\* in flight, the address is the full path of the current route.
C33_AddressFollowsCurrent ==
  (/\ NothingInFlight
   /\ \E n \in DOMAIN navs : navs[n].kind = "pop")
  => address = locationOf(current)

\* ------------------------------------------ properties of the route table
NoDuplicates(list) == \A i, j \in DOMAIN list : i # j => list[i] # list[j]

\* the list holds each path once, and the paths of the list are the keys of
\* the map
ListedOnce(tbl) ==
  /\ NoDuplicates(tbl.pathList)
  /\ Range(tbl.pathList) = DOMAIN tbl.pathMap

\* C34: in every table that createRouteMap, addRoute and addRoutes build, the
\* list of paths holds no path twice and its paths are the keys of the path
\* map; a definition whose path the map already has adds nothing to them and
\* leaves the record of that path in place.
C34_PathsListedOnce ==
  [][/\ ListedOnce(table)
     /\ ListedOnce(table')
     /\ \A path \in DOMAIN table.pathMap : table'.pathMap[path] = table.pathMap[path]]_vars

\* more records have been made than paths are listed: a definition with a
\* path that the map had already has been added
C34_Witness ==
  /\ table.pathList # <<>>
  /\ table.nextId - 1 > Len(table.pathList)

\* where a path is in a list, 0 when it is not there
Place(list, path) ==
  IF \E i \in DOMAIN list : list[i] = path
  THEN CHOOSE i \in DOMAIN list : list[i] = path
  ELSE 0

\* C35: adding routes only grows the table: no path leaves the list, the
\* record of a path and the record of a name stay what they were when first
\* set, and the paths other than '*' that were in the list keep their order.
C35_TableOnlyGrows ==
  [][/\ Range(table.pathList) \subseteq Range(table'.pathList)
     /\ \A path \in DOMAIN table.pathMap :
          path \in DOMAIN table'.pathMap /\ table'.pathMap[path] = table.pathMap[path]
     /\ \A name \in DOMAIN table.nameMap :
          name \in DOMAIN table'.nameMap /\ table'.nameMap[name] = table.nameMap[name]
     /\ \A i, j \in DOMAIN table.pathList :
          i < j /\ table.pathList[i] # Star /\ table.pathList[j] # Star
          => Place(table'.pathList, table.pathList[i]) < Place(table'.pathList, table.pathList[j])]_vars

\* { path: '/a', name: 'a', alias: '/b' } has been added twice: the name
\* belongs to the first record, and the second call made two records more
C35_Witness ==
  /\ "a" \in DOMAIN table.nameMap
  /\ table.nameMap["a"].id = 1
  /\ table.nextId = 5
  /\ table.pathList = <<Static("a"), Static("b")>>

\* ------------------------------------------------ properties of redirects
\* the record a redirect option leads to, <<>> when it leads to none
RedirectsTo(tbl, record) ==
  IF record.redirect.name # ""
  THEN IF record.redirect.name \in DOMAIN tbl.nameMap
       THEN <<tbl.nameMap[record.redirect.name]>> ELSE <<>>
  ELSE LET i == firstInList(tbl, fillParams(record.redirect.path, NoParams), 1)
       IN IF i = 0 THEN <<>> ELSE <<tbl.pathMap[tbl.pathList[i]]>>

RECURSIVE ChainEnds(_, _, _)
\* the chain of redirects that starts at a record reaches, within n records,
\* a record without a redirect or no record
ChainEnds(tbl, record, n) ==
  /\ n > 0
  /\ \/ record = <<>>
     \/ record[1].redirect = NoRedirect
     \/ ChainEnds(tbl, RedirectsTo(tbl, record[1]), n - 1)

\* the chain of redirects of the k-th call of match ends
Ends(k) ==
  ChainEnds(table, found(table, asked[k].raw, <<>>, <<>>).record, Len(table.pathList) + 1)

\* C36: a call of match returns a Route when the chain of redirects that
\* starts at the record it finds reaches a record without a redirect, and
\* the Route is the one of the end of the chain; when the chain cycles the
\* call never returns.
C36_MatchReturns ==
  /\ [](\A k \in DOMAIN answer :
          Ends(k) /\ answer[k] = matcherMatch(table, asked[k].raw, <<>>, <<>>))
  /\ \A k \in 1..MaxAsks :
       (k \in DOMAIN asked /\ Ends(k)) ~> (k \in DOMAIN answer)

\* a call of match on a chain of redirects that cycles has called match
\* again and again and has not returned
C36_Witness ==
  /\ asked # <<>>
  /\ ~Ends(1)
  /\ asked[1].calls = MaxHops
  /\ answer = <<>>

\* ------------------------------------------------ properties of pending
\* C37: whenever no navigation is in flight, history.pending is null: after
\* the latest navigation has ended, committed, duplicated, aborted, redirected
\* or with an exception, pending no longer refers to its route.
C37_PendingNullAtRest == NothingInFlight => pending = NoRoute

\* ---------------- properties of the callbacks of navigations that abort
\* the navigation whose beforeRouteEnter guard handed callback i of the
\* called ones to next, as long as it is known
Maker(i) == navs[entered[i].cb]

\* C38: a callback that a beforeRouteEnter guard hands to next is called only
\* for a navigation that was committed: when the navigation aborts or is
\* cancelled, no later navigation that commits into the same record calls it.
C38_AbortedCallbackNeverCalled ==
  \A i \in DOMAIN entered :
    Maker(i).kind # "gone" => Has(Maker(i).trace, "updateRoute")

\* --------------------------------- properties of the in-memory adapter
\* index is at least -1 and less than the length of the stack
IndexInStack == index >= 0 - 1 /\ index < Len(stack)

\* navigation n is committed in the step
CommitsNow(n) ==
  /\ Has(navs'[n].trace, "updateRoute")
  /\ n \in DOMAIN navs => ~Has(navs[n].trace, "updateRoute")

\* after a committed push or replace index is the last position of the stack
\* and the route there is the committed one
TopIsCommitted ==
  \A n \in DOMAIN navs' :
    (CommitsNow(n) /\ navs'[n].kind \in {"push", "replace"})
      => /\ index' = Len(stack') - 1
         /\ index' >= 0
         /\ stack'[index' + 1] = navs'[n].route

\* with nothing in flight the entry at index has the full path of current
EntryIsCurrent ==
  (NothingInFlight /\ index >= 0) => FullPath(stack[index + 1]) = FullPath(current)

\* the step is a call of go with a target outside the stack
OutsideStep == \E d \in {0 - 1, 1} : GoOutside(d)

\* C39: in the in-memory adapter index is at least -1 and less than the
\* length of the stack; after each committed push or replace index is the
\* last position of the stack and the entry there is the committed route;
\* whenever index >= 0 and no navigation is in flight the entry at index has
\* the full path of current; a call of go with a target outside the stack
\* changes nothing.
C39_StackFollowsCurrent ==
  /\ IndexInStack
  /\ [][/\ IndexInStack'
        /\ TopIsCommitted
        /\ EntryIsCurrent'
        /\ OutsideStep => UNCHANGED <<current, pending, stack, index, callStack,
                                      waiting, loading, ready>>]_vars

\* ------------------------------------------- properties of the main root
\* router.app is null exactly when router.apps is empty, and a root of
\* router.apps otherwise
MainIsRegistered ==
  /\ app = 0 <=> apps = <<>>
  /\ app # 0 => \E i \in DOMAIN apps : apps[i] = app

\* the step is an init that finds no main root
FirstInit == app = 0 /\ app' # 0

\* the step starts the first transition of an init
StartsInitial ==
  /\ Len(navs') = Len(navs) + 1
  /\ navs'[Len(navs')].kind = "init"

\* the step destroys the last root of router.apps
LastDestroyed == apps # <<>> /\ apps' = <<>>

\* C40: over the creations and destructions of roots in a window, router.app
\* is null exactly when router.apps is empty and a member of router.apps
\* otherwise; the first transition is started by an init that finds no main
\* root, and by no other step; the history is torn down, back to START with
\* no listener, exactly in the steps that destroy the last root.
C40_MainRoot ==
  /\ MainIsRegistered
  /\ [][/\ MainIsRegistered'
        /\ StartsInitial <=> FirstInit
        /\ LastDestroyed => current' = START /\ pending' = NoRoute /\ listeners' = <<>>
        /\ (current # START /\ current' = START) => LastDestroyed
        /\ (listeners # <<>> /\ listeners' = <<>>) => LastDestroyed]_vars

\* the root that made the first transition was destroyed, and another root,
\* created with the main root there, is the main root with the listeners up
C40_Witness ==
  /\ apps = <<2>>
  /\ app = 2
  /\ current # START
  /\ listeners # <<>>
  /\ \A n \in DOMAIN navs : navs[n].kind # "init"

====
